---- MODULE Spec2Model ----
(***************************************************************************)
(* Model of the internal users query endpoint of the user service          *)
(* (POST /internal/v1/users/query): the onRequest mock hook, the auth      *)
(* preHandler, postUsersQueryService (candidate load, enrichment, rule,    *)
(* search and numeric filters, sort, pagination, coupon dispatch) and the  *)
(* repository operations it calls.                                         *)
(*                                                                         *)
(* Text is a sequence of one-character strings.  JavaScript values are     *)
(* records [t, n, s, a]: t is the type tag ("str", "num", "null", "undef", *)
(* "arr"), n the number, s the text, a the array elements.  A nullable     *)
(* number is <<>> (null) or <<n>>.  Instants are whole days.               *)
(***************************************************************************)
EXTENDS Integers, Sequences, FiniteSets, TLC

(***************************************************************************)
(* Text                                                                    *)
(***************************************************************************)
Digits == <<"0", "1", "2", "3", "4", "5", "6", "7", "8", "9">>

IsDigit(c) == \E i \in 1..10 : Digits[i] = c

DigitVal(c) == (CHOOSE i \in 1..10 : Digits[i] = c) - 1

UpperToLower ==
    [A |-> "a", B |-> "b", C |-> "c", D |-> "d", E |-> "e", F |-> "f",
     G |-> "g", H |-> "h", I |-> "i", J |-> "j", K |-> "k", L |-> "l",
     M |-> "m", N |-> "n", O |-> "o", P |-> "p", Q |-> "q", R |-> "r",
     S |-> "s", T |-> "t", U |-> "u", V |-> "v", W |-> "w", X |-> "x",
     Y |-> "y", Z |-> "z"]

ToLowerChar(c) == IF c \in DOMAIN UpperToLower THEN UpperToLower[c] ELSE c

ToLowerCase(s) == [i \in 1..Len(s) |-> ToLowerChar(s[i])]

\* String.prototype.trim on the one white-space character of the model
Trim(s) ==
    LET keep == {i \in 1..Len(s) : s[i] # " "}
    IN  IF keep = {} THEN <<>>
        ELSE SubSeq(s, CHOOSE i \in keep : \A j \in keep : i <= j,
                       CHOOSE i \in keep : \A j \in keep : j <= i)

\* String.prototype.includes
Includes(s, t) ==
    \E i \in 0..(Len(s) - Len(t)) : SubSeq(s, i + 1, i + Len(t)) = t

StartsWith(s, t) == Len(s) >= Len(t) /\ SubSeq(s, 1, Len(t)) = t

EndsWith(s, t) == Len(s) >= Len(t) /\ SubSeq(s, Len(s) - Len(t) + 1, Len(s)) = t

StripPrefix(s, t) == IF StartsWith(s, t) THEN SubSeq(s, Len(t) + 1, Len(s)) ELSE s

StripSuffix(s, t) == IF EndsWith(s, t) THEN SubSeq(s, 1, Len(s) - Len(t)) ELSE s

\* s.replace(/\D+/g, '')
DigitsOnly(s) == SelectSeq(s, IsDigit)

\* Collation order of the characters the model's names are written in:
\* white space and punctuation before digits before letters.
Collation ==
    <<" ", "_", "-", ",", ".", "@", "+", "$", "{", "}",
      "0", "1", "2", "3", "4", "5", "6", "7", "8", "9",
      "a", "A", "b", "B", "c", "C", "d", "D", "e", "E", "f", "F", "g", "G",
      "h", "H", "i", "I", "j", "J", "k", "K", "l", "L", "m", "M", "n", "N",
      "o", "O", "p", "P", "q", "Q", "r", "R", "s", "S", "t", "T", "u", "U",
      "v", "V", "w", "W", "x", "X", "y", "Y", "z", "Z">>

CharRank(c) == CHOOSE i \in 1..Len(Collation) : Collation[i] = c

\* String.prototype.localeCompare: -1, 0 or 1
RECURSIVE LocaleCompare(_, _)
LocaleCompare(a, b) ==
    IF a = <<>> /\ b = <<>> THEN 0
    ELSE IF a = <<>> THEN 0 - 1
    ELSE IF b = <<>> THEN 1
    ELSE IF CharRank(a[1]) < CharRank(b[1]) THEN 0 - 1
    ELSE IF CharRank(a[1]) > CharRank(b[1]) THEN 1
    ELSE LocaleCompare(Tail(a), Tail(b))

\* String(n).padStart(2, '0') for 0 <= n
Pad2(n) ==
    IF n < 10 THEN <<"0", Digits[n + 1]>>
    ELSE IF n < 100 THEN <<Digits[(n \div 10) + 1], Digits[(n % 10) + 1]>>
    ELSE <<Digits[(n \div 100) + 1], Digits[((n \div 10) % 10) + 1], Digits[(n % 10) + 1]>>

\* String(n) for a four-digit year
Year4(n) ==
    <<Digits[(n \div 1000) + 1], Digits[((n \div 100) % 10) + 1],
      Digits[((n \div 10) % 10) + 1], Digits[(n % 10) + 1]>>

\* String(n) for an integer
RECURSIVE NatText(_)
NatText(n) == IF n < 10 THEN <<Digits[n + 1]>> ELSE NatText(n \div 10) \o <<Digits[(n % 10) + 1]>>

IntText(n) == IF n < 0 THEN <<"-">> \o NatText(0 - n) ELSE NatText(n)

\* the value of a non-empty run of digits
RECURSIVE DigitsValue(_)
DigitsValue(s) ==
    IF s = <<>> THEN 0 ELSE DigitsValue(SubSeq(s, 1, Len(s) - 1)) * 10 + DigitVal(s[Len(s)])

AllDigits(s) == \A i \in 1..Len(s) : IsDigit(s[i])

(***************************************************************************)
(* JavaScript values                                                       *)
(***************************************************************************)
Str(s) == [t |-> "str", n |-> 0, s |-> s, a |-> <<>>]

Num(n) == [t |-> "num", n |-> n, s |-> <<>>, a |-> <<>>]

Undef == [t |-> "undef", n |-> 0, s |-> <<>>, a |-> <<>>]

NullV == [t |-> "null", n |-> 0, s |-> <<>>, a |-> <<>>]

Arr(a) == [t |-> "arr", n |-> 0, s |-> <<>>, a |-> a]

None == <<>>

Some(n) == <<n>>

OrElse(o, d) == IF o = None THEN d ELSE o[1]

\* a nullable number as a JavaScript value
OptVal(o) == IF o = None THEN NullV ELSE Num(o[1])

RECURSIVE JoinText(_)
\* String(v) of a scalar
ScalarText(v) ==
    CASE v.t = "str" -> v.s
      [] v.t = "num" -> IntText(v.n)
      [] v.t = "null" -> <<"n", "u", "l", "l">>
      [] OTHER -> <<"u", "n", "d", "e", "f", "i", "n", "e", "d">>

\* Array.prototype.join(','): null and undefined elements are empty
JoinText(a) ==
    IF a = <<>> THEN <<>>
    ELSE LET h == IF a[1].t \in {"null", "undef"} THEN <<>> ELSE ScalarText(a[1])
         IN  IF Len(a) = 1 THEN h ELSE h \o <<",">> \o JoinText(Tail(a))

\* String(v)
ToText(v) == IF v.t = "arr" THEN JoinText(v.a) ELSE ScalarText(v)

NaN == [nan |-> TRUE, v |-> 0]

Fin(n) == [nan |-> FALSE, v |-> n]

\* Number(text): white space is 0, an optionally signed run of digits is its
\* value, anything else is NaN
TextToNumber(s) ==
    LET r == Trim(s)
    IN  IF r = <<>> THEN Fin(0)
        ELSE IF AllDigits(r) THEN Fin(DigitsValue(r))
        ELSE IF r[1] = "-" /\ Len(r) > 1 /\ AllDigits(Tail(r)) THEN Fin(0 - DigitsValue(Tail(r)))
        ELSE IF r[1] = "+" /\ Len(r) > 1 /\ AllDigits(Tail(r)) THEN Fin(DigitsValue(Tail(r)))
        ELSE NaN

\* Number(v)
ToNumber(v) ==
    CASE v.t = "num" -> Fin(v.n)
      [] v.t = "null" -> Fin(0)
      [] v.t = "undef" -> NaN
      [] OTHER -> TextToNumber(ToText(v))

\* a === b (arrays are compared by reference: a rule's array is never the
\* record's array)
StrictEquals(a, b) == a.t = b.t /\ a.t # "arr" /\ a = b

(***************************************************************************)
(* Calendar and Date.parse                                                 *)
(***************************************************************************)
\* floor division, also for a negative dividend
FloorDiv(a, b) == IF a >= 0 THEN a \div b ELSE 0 - ((b - 1 - a) \div b)

\* new Date(ms).getUTCFullYear / getUTCMonth + 1 / getUTCDate of day number z
\* (days since 1970-01-01)
CivilFromDays(z) ==
    LET zz == z + 719468
        era == FloorDiv(zz, 146097)
        doe == zz - era * 146097
        yoe == (doe - (doe \div 1460) + (doe \div 36524) - (doe \div 146096)) \div 365
        doy == doe - (365 * yoe + (yoe \div 4) - (yoe \div 100))
        mp == (5 * doy + 2) \div 153
        d == doy - ((153 * mp + 2) \div 5) + 1
        m == IF mp < 10 THEN mp + 3 ELSE mp - 9
        y == yoe + era * 400 + (IF m <= 2 THEN 1 ELSE 0)
    IN  [yyyy |-> y, mm |-> m, dd |-> d]

\* the day number of a calendar date
DaysFromCivil(y0, m, d) ==
    LET y == IF m <= 2 THEN y0 - 1 ELSE y0
        era == FloorDiv(y, 400)
        yoe == y - era * 400
        doy == ((153 * (IF m > 2 THEN m - 3 ELSE m + 9) + 2) \div 5) + d - 1
        doe == yoe * 365 + (yoe \div 4) - (yoe \div 100) + doy
    IN  era * 146097 + doe - 719468

IsLeap(y) == (y % 4 = 0 /\ y % 100 # 0) \/ y % 400 = 0

DaysInMonth(y, m) ==
    IF m = 2 THEN (IF IsLeap(y) THEN 29 ELSE 28)
    ELSE IF m \in {4, 6, 9, 11} THEN 30 ELSE 31

\* the text is YYYY-MM-DD
IsIsoDate(s) ==
    /\ Len(s) = 10
    /\ s[5] = "-" /\ s[8] = "-"
    /\ \A i \in {1, 2, 3, 4, 6, 7, 9, 10} : IsDigit(s[i])
    /\ LET y == DigitsValue(SubSeq(s, 1, 4))
           m == DigitsValue(SubSeq(s, 6, 7))
           d == DigitsValue(SubSeq(s, 9, 10))
       IN  m \in 1..12 /\ d \in 1..DaysInMonth(y, m)

\* Date.parse of a text, in days: an ISO date is its instant; a bare number
\* is read by the engine's legacy parser as a month of 2001 (1..12), as a
\* two-digit year (0, 32..99) or as a year (three and four digits);
\* everything else is NaN
DateParseText(s) ==
    IF IsIsoDate(s)
    THEN Fin(DaysFromCivil(DigitsValue(SubSeq(s, 1, 4)), DigitsValue(SubSeq(s, 6, 7)),
                           DigitsValue(SubSeq(s, 9, 10))))
    ELSE IF s # <<>> /\ AllDigits(s) /\ Len(s) <= 4
    THEN LET n == DigitsValue(s)
         IN  IF Len(s) >= 3 THEN Fin(DaysFromCivil(n, 1, 1))
             ELSE IF n = 0 THEN Fin(DaysFromCivil(2000, 1, 1))
             ELSE IF n <= 12 THEN Fin(DaysFromCivil(2001, n, 1))
             ELSE IF n <= 31 THEN NaN
             ELSE IF n <= 49 THEN Fin(DaysFromCivil(2000 + n, 1, 1))
             ELSE Fin(DaysFromCivil(1900 + n, 1, 1))
    ELSE NaN

\* Date.parse(v): the argument is converted to text first
DateParse(v) == DateParseText(ToText(v))

(***************************************************************************)
(* Rule evaluator (query.service.ts)                                       *)
(***************************************************************************)
todayPartsUTC(now) == CivilFromDays(now)

partsDaysBeforeUTC(now, days) == CivilFromDays(now - days)

\* the unwrap closure of resolveDynamicValue
Unwrap(s) ==
    StripSuffix(StripSuffix(StripPrefix(StripPrefix(s, <<"$", "{">>), <<"{", "{">>),
                            <<"}", "}">>), <<"}">>)

TokTodayMmDd == <<"T", "O", "D", "A", "Y", "_", "M", "M", "_", "D", "D">>

TokTodaySuffix ==
    <<"T", "O", "D", "A", "Y", "_", "S", "U", "F", "F", "I", "X", "_", "M", "M", "_", "D", "D">>

TokDaysBefore == <<"_", "D", "A", "Y", "S", "_", "B", "E", "F", "O", "R", "E">>

TokSuffixMmDd == <<"_", "S", "U", "F", "F", "I", "X", "_", "M", "M", "_", "D", "D">>

MmDd(p) == Pad2(p.mm) \o <<"-">> \o Pad2(p.dd)

\* an unsupported token returned trimmed and unwrapped
resolveDynamicValueToken(field, operator, value, now) ==
    IF value.t # "str" THEN value
    ELSE LET token == Unwrap(Trim(value.s))
         IN  IF token = TokTodayMmDd THEN Str(MmDd(todayPartsUTC(now)))
             ELSE IF token = TokTodaySuffix THEN Str(<<"-">> \o MmDd(todayPartsUTC(now)))
             ELSE IF token = <<"7">> \o TokDaysBefore \o TokSuffixMmDd
                  THEN Str(<<"-">> \o MmDd(partsDaysBeforeUTC(now, 7)))
             ELSE IF token = <<"3", "0">> \o TokDaysBefore \o TokSuffixMmDd
                  THEN Str(<<"-">> \o MmDd(partsDaysBeforeUTC(now, 30)))
             ELSE IF token = <<"3", "0">> \o TokDaysBefore
                  THEN LET p == partsDaysBeforeUTC(now, 30)
                       IN  Str(Year4(p.yyyy) \o <<"-">> \o MmDd(p))
             ELSE IF token = <<"4", "0">> \o TokDaysBefore
                  THEN LET p == partsDaysBeforeUTC(now, 40)
                       IN  Str(Year4(p.yyyy) \o <<"-">> \o MmDd(p))
             ELSE Str(token)

resolveDynamicValue(field, operator, value, now) ==
    IF value.t # "str" THEN value
    ELSE LET token == Unwrap(Trim(value.s))
         IN  IF token = TokTodayMmDd THEN Str(MmDd(todayPartsUTC(now)))
             ELSE IF token = TokTodaySuffix THEN Str(<<"-">> \o MmDd(todayPartsUTC(now)))
             ELSE IF token = <<"7">> \o TokDaysBefore \o TokSuffixMmDd
                  THEN Str(<<"-">> \o MmDd(partsDaysBeforeUTC(now, 7)))
             ELSE IF token = <<"3", "0">> \o TokDaysBefore \o TokSuffixMmDd
                  THEN Str(<<"-">> \o MmDd(partsDaysBeforeUTC(now, 30)))
             ELSE IF token = <<"3", "0">> \o TokDaysBefore
                  THEN LET p == partsDaysBeforeUTC(now, 30)
                       IN  Str(Year4(p.yyyy) \o <<"-">> \o MmDd(p))
             ELSE IF token = <<"4", "0">> \o TokDaysBefore
                  THEN LET p == partsDaysBeforeUTC(now, 40)
                       IN  Str(Year4(p.yyyy) \o <<"-">> \o MmDd(p))
             ELSE value

\* a relational comparison of two numbers, false when either is NaN
NumGreater(x, y) == ~x.nan /\ ~y.nan /\ x.v > y.v

NumLess(x, y) == ~x.nan /\ ~y.nan /\ x.v < y.v

\* Array.prototype.includes
ArrIncludes(a, v) == \E i \in 1..Len(a) : StrictEquals(a[i], v)

\* NOT_CONTAINS as the complement of CONTAINS
matchesOperatorComplement(fieldValue, operator, value) ==
    CASE operator = "EQUALS" -> StrictEquals(fieldValue, value)
      [] operator = "NOT_EQUALS" -> ~StrictEquals(fieldValue, value)
      [] operator = "CONTAINS" ->
            fieldValue.t = "str" /\ Includes(ToText(fieldValue), ToText(value))
      [] operator = "NOT_CONTAINS" ->
            ~(fieldValue.t = "str" /\ Includes(ToText(fieldValue), ToText(value)))
      [] operator = "GREATER_THAN" ->
            LET a == DateParse(fieldValue)
                b == DateParse(value)
            IN  IF ~a.nan /\ ~b.nan THEN a.v > b.v
                ELSE NumGreater(ToNumber(fieldValue), ToNumber(value))
      [] operator = "LESS_THAN" ->
            LET a == DateParse(fieldValue)
                b == DateParse(value)
            IN  IF ~a.nan /\ ~b.nan THEN a.v < b.v
                ELSE NumLess(ToNumber(fieldValue), ToNumber(value))
      [] operator = "IN" -> value.t = "arr" /\ ArrIncludes(value.a, fieldValue)
      [] operator = "NOT_IN" -> value.t = "arr" /\ ~ArrIncludes(value.a, fieldValue)
      [] OTHER -> FALSE

matchesOperator(fieldValue, operator, value) ==
    CASE operator = "EQUALS" -> StrictEquals(fieldValue, value)
      [] operator = "NOT_EQUALS" -> ~StrictEquals(fieldValue, value)
      [] operator = "CONTAINS" ->
            fieldValue.t = "str" /\ Includes(ToText(fieldValue), ToText(value))
      [] operator = "NOT_CONTAINS" ->
            fieldValue.t = "str" /\ ~Includes(ToText(fieldValue), ToText(value))
      [] operator = "GREATER_THAN" ->
            LET a == DateParse(fieldValue)
                b == DateParse(value)
            IN  IF ~a.nan /\ ~b.nan THEN a.v > b.v
                ELSE NumGreater(ToNumber(fieldValue), ToNumber(value))
      [] operator = "LESS_THAN" ->
            LET a == DateParse(fieldValue)
                b == DateParse(value)
            IN  IF ~a.nan /\ ~b.nan THEN a.v < b.v
                ELSE NumLess(ToNumber(fieldValue), ToNumber(value))
      [] operator = "IN" -> value.t = "arr" /\ ArrIncludes(value.a, fieldValue)
      [] operator = "NOT_IN" -> value.t = "arr" /\ ~ArrIncludes(value.a, fieldValue)
      [] OTHER -> FALSE

\* rec is an enriched candidate; it has no property called stamps
pickUserField(rec, field) ==
    CASE field = "email" -> rec.email
      [] field = "phone" -> rec.phone
      [] field \in {"firstName", "name"} -> rec.name
      [] field \in {"lastName", "surname"} -> rec.surname
      [] field = "birthday" -> rec.birthday
      [] field = "stamps" -> Undef
      [] field = "tokens" -> OptVal(rec.tokens)
      [] OTHER ->
            IF rec.preferences.isObject
            THEN (IF field \in DOMAIN rec.preferences.kv THEN rec.preferences.kv[field] ELSE Undef)
            ELSE Undef

(***************************************************************************)
(* Program constants                                                       *)
(***************************************************************************)
DEFAULT_LIMIT == 50

MAX_LIMIT == 200

DEFAULT_MAX_TAKE == 1000

\* const concurrency = 8 of the enrichment fallback
FallbackConcurrency == 8

\* const concurrency = 12 of the coupon dispatcher
DispatchConcurrency == 12

\* the default of KEYCLOAK_SERVICE_AUDIENCE, split at the commas
DefaultServiceAudience == <<"campaign-service", "messaging-service", "user-service">>

\* null, undefined and '' as an identifier: all three are falsy
Nil == "nil"

(***************************************************************************)
(* Request numbers.  A number of the request body or of the environment    *)
(* is [fin, x10]: fin is Number.isFinite of it (false for an absent value, *)
(* NaN, an infinity and a non-number), x10 is ten times its value, so that *)
(* Math.trunc has something to cut.                                        *)
(***************************************************************************)
NotFinite == [fin |-> FALSE, x10 |-> 0]

Raw(x10) == [fin |-> TRUE, x10 |-> x10]

\* Math.trunc
Trunc(r) == IF r.x10 >= 0 THEN r.x10 \div 10 ELSE 0 - ((0 - r.x10) \div 10)

Max(a, b) == IF a >= b THEN a ELSE b

Min(a, b) == IF a <= b THEN a ELSE b

SeqToSet(q) == {q[i] : i \in 1..Len(q)}

\* Array.prototype.slice(from, to) with 0 <= from
Slice(q, from, to) == SubSeq(q, from + 1, Min(to, Len(q)))

(***************************************************************************)
(* isServiceRequest and the auth preHandler                                *)
(***************************************************************************)
\* process.env.KEYCLOAK_SERVICE_AUDIENCE || default, split and trimmed
allowedServices(cfg) ==
    IF cfg.serviceAudience = <<>> THEN SeqToSet(DefaultServiceAudience)
    ELSE SeqToSet(cfg.serviceAudience)

\* request.auth as the preHandler leaves it: absent without a token, the
\* payload of a verified token otherwise
AuthOf(req) == IF req.token.kind = "verified" THEN req.token ELSE [kind |-> "none", azp |-> Nil, aud |-> [kind |-> "none", list |-> <<>>]]

audList(auth) == IF auth.aud.kind \in {"arr", "str"} THEN SeqToSet(auth.aud.list) ELSE {}

\* isServiceRequest with an azp accepted as soon as the token carries one
isServiceRequestAnyAzp(cfg, req) ==
    LET auth == AuthOf(req)
    IN  \/ auth.azp # Nil
        \/ \E a \in audList(auth) : a \in allowedServices(cfg)

isServiceRequest(cfg, req) ==
    LET auth == AuthOf(req)
    IN  \/ (auth.azp # Nil /\ auth.azp \in allowedServices(cfg))
        \/ \E a \in audList(auth) : a \in allowedServices(cfg)

\* keycloakAuthPlugin preHandler: the reply is 401 for a token that fails
\* verification, and for a verified one whose aud and azp miss a non-empty
\* KEYCLOAK_AUDIENCE list
TokenRejected(cfg, req) ==
    \/ req.token.kind = "invalid"
    \/ /\ req.token.kind = "verified"
       /\ cfg.allowedAudiences # {}
       /\ ~\E v \in audList(req.token) \cup (IF req.token.azp # Nil THEN {req.token.azp} ELSE {}) :
              v \in cfg.allowedAudiences

(***************************************************************************)
(* Parsing of the request body (query.service.ts 417-449)                  *)
(***************************************************************************)
\* the limit rounded up where the code truncates it
ParseLimitRounded(req) ==
    IF req.limit.fin
    THEN Max(1, Min(Trunc(req.limit) + (IF req.limit.x10 % 10 # 0 /\ req.limit.x10 > 0 THEN 1 ELSE 0),
                    MAX_LIMIT))
    ELSE DEFAULT_LIMIT

ParseLimit(req) ==
    IF req.limit.fin THEN Max(1, Min(Trunc(req.limit), MAX_LIMIT)) ELSE DEFAULT_LIMIT

ParsePage(req) == IF req.page.fin THEN Max(1, Trunc(req.page)) ELSE 1

\* the offset of a page counted from 0 where the code counts pages from 1
ParseOffsetFromPage(req) ==
    IF req.offset.fin THEN Max(0, Trunc(req.offset)) ELSE ParsePage(req) * ParseLimit(req)

ParseOffset(req) ==
    IF req.offset.fin THEN Max(0, Trunc(req.offset)) ELSE (ParsePage(req) - 1) * ParseLimit(req)

\* typeof body.search === 'string' ? body.search.trim() : ''
ParseSearch(req) == IF req.search.isStr THEN Trim(req.search.s) ELSE <<>>

\* a maximum that is the value of the environment alone
MaxTakeEnvOnly(cfg, req) ==
    IF cfg.maxTakeEnv.fin /\ cfg.maxTakeEnv.x10 > 0 THEN Trunc(cfg.maxTakeEnv)
    ELSE DEFAULT_MAX_TAKE

MaxTake(cfg, req) ==
    IF cfg.maxTakeEnv.fin /\ cfg.maxTakeEnv.x10 > 0
    THEN Max(ParseLimit(req), Trunc(cfg.maxTakeEnv))
    ELSE DEFAULT_MAX_TAKE

DesiredTake(req) ==
    Max(ParseOffset(req) + ParseLimit(req),
        IF ParseSearch(req) # <<>> THEN ParseLimit(req) * 50 ELSE ParseLimit(req) * 10)

Take(cfg, req) == Min(DesiredTake(req), MaxTake(cfg, req))

ParseSortBy(req) == IF req.sortBy = "absent" THEN "name" ELSE req.sortBy

ParseSortOrder(req) == IF req.sortOrder = "desc" THEN "desc" ELSE "asc"

\* a threshold read from filters.minStamps alone
ParseMinStampsNoLegacy(req) ==
    IF req.filters.minStamps.fin THEN Some(Max(0, Trunc(req.filters.minStamps))) ELSE None

ParseMinStamps(req) ==
    IF req.filters.minStamps.fin THEN Some(Max(0, Trunc(req.filters.minStamps)))
    ELSE IF req.minStamp.fin THEN Some(Max(0, Trunc(req.minStamp)))
    ELSE None

ParseLastVisitDays(req) ==
    IF req.filters.lastVisitDays.fin THEN Some(Max(1, Trunc(req.filters.lastVisitDays)))
    ELSE None

requiresScope(req) == req.businessId # Nil \/ req.brandId # Nil

\* the rules of every database tag
UserRulesAnyTag(req) == req.rules

UserRules(req) == SelectSeq(req.rules, LAMBDA r : r.database = "USER")

processedRules(req, now) ==
    LET rules == UserRules(req)
    IN  [i \in 1..Len(rules) |->
            [rules[i] EXCEPT !.value = resolveDynamicValue(rules[i].field, rules[i].operator,
                                                          rules[i].value, now)]]

(***************************************************************************)
(* Repository (repository.prisma.ts).  users is the user table in the      *)
(* order of createdAt descending; memberships is the membership table.     *)
(***************************************************************************)
findUsersForTargeting(users, limit) == SubSeq(users, 1, Min(limit, Len(users)))

\* where: { userMemberships: { some: { businessId } } }
findUsersForTargetingByBusiness(users, ms, businessId, limit) ==
    LET hit == SelectSeq(users, LAMBDA u : \E k \in 1..Len(ms) :
                                              ms[k].userId = u.id /\ ms[k].businessId = businessId)
    IN  SubSeq(hit, 1, Min(limit, Len(hit)))

\* where: { userMemberships: { some: { brandId } } }
findUsersForTargetingByBrand(users, ms, brandId, limit) ==
    LET hit == SelectSeq(users, LAMBDA u : \E k \in 1..Len(ms) :
                                              ms[k].userId = u.id /\ ms[k].brandId = brandId)
    IN  SubSeq(hit, 1, Min(limit, Len(hit)))

listMemberships(ms, userId) == SelectSeq(ms, LAMBDA m : m.userId = userId)

\* findUnique on (userId, businessId): the row's index in the table, 0 for null
getMembership(ms, userId, businessId) ==
    IF \E i \in 1..Len(ms) : ms[i].userId = userId /\ ms[i].businessId = businessId
    THEN CHOOSE i \in 1..Len(ms) : ms[i].userId = userId /\ ms[i].businessId = businessId
    ELSE 0

\* an update that leaves the total of coupons as it was read
CountersUpdateNoDelta(existing, counters) ==
    [validStamps |-> IF counters.validStamps = None THEN existing.validStamps
                     ELSE counters.validStamps,
     validCoupons |-> existing.validCoupons + OrElse(counters.validCoupons, 0),
     totalStamps |-> Some(OrElse(existing.totalStamps, 0) + OrElse(counters.totalStampsDelta, 0)),
     totalCoupons |-> existing.totalCoupons]

\* the update of setMembershipCounters, from the row it read (existing) and
\* the counters it was given
CountersUpdate(existing, counters) ==
    [validStamps |-> IF counters.validStamps = None THEN existing.validStamps
                     ELSE counters.validStamps,
     validCoupons |-> existing.validCoupons + OrElse(counters.validCoupons, 0),
     totalStamps |-> Some(OrElse(existing.totalStamps, 0) + OrElse(counters.totalStampsDelta, 0)),
     totalCoupons |-> existing.totalCoupons + OrElse(counters.totalCouponsDelta, 0)]

\* prisma.userMembership.update({ where: { id }, data })
UpdateMembership(ms, id, data) ==
    [i \in 1..Len(ms) |->
        IF ms[i].id = id
        THEN [ms[i] EXCEPT !.validStamps = data.validStamps, !.validCoupons = data.validCoupons,
                           !.totalStamps = data.totalStamps, !.totalCoupons = data.totalCoupons]
        ELSE ms[i]]

\* the bulk lookups the service calls when the repository has them
listMembershipsForUsersByBusiness(ms, userIds, businessId) ==
    SelectSeq(ms, LAMBDA m : m.userId \in SeqToSet(userIds) /\ m.businessId = businessId)

listMembershipsForUsersByBrand(ms, userIds, brandId) ==
    SelectSeq(ms, LAMBDA m : m.userId \in SeqToSet(userIds) /\ m.brandId = brandId)

(***************************************************************************)
(* Enrichment, filters, sort and page (query.service.ts 463-635)           *)
(***************************************************************************)
\* userIds: candidates.map(u => String(u.id)).filter(id => id.length > 0)
UserIds(candidates) == [i \in 1..Len(candidates) |-> candidates[i].id]

\* the first scoped membership of the list for every user that has one
MembershipForFirstRow(scoped, userId) ==
    LET hit == SelectSeq(scoped, LAMBDA m : m.userId = userId)
    IN  IF hit = <<>> THEN <<>> ELSE <<scoped[1]>>

\* membershipByUserId.get(userId) ?? null: the first scoped membership of
\* the user, <<>> for none; the map is null without a scope
MembershipFor(scoped, userId) ==
    LET hit == SelectSeq(scoped, LAMBDA m : m.userId = userId)
    IN  IF hit = <<>> THEN <<>> ELSE <<hit[1]>>

\* the body of candidates.map at 516-546; mo is <<>> or <<membership>>
EnrichOne(u, mo, scope) ==
    IF scope /\ mo # <<>>
    THEN LET m == mo[1]
         IN  [user |-> u,
              validStamps |-> m.validStamps,
              totalStamps |-> Some(OrElse(m.totalStamps, OrElse(m.validStamps, 0))),
              tokens |-> m.tokens,
              validCoupons |-> Some(m.validCoupons),
              lastVisitedAt |-> m.lastVisitedAt,
              matchesRequestedScope |-> TRUE]
    ELSE [user |-> u, validStamps |-> None, totalStamps |-> None, tokens |-> None,
          validCoupons |-> None, lastVisitedAt |-> None, matchesRequestedScope |-> ~scope]

Enrich(candidates, scoped, scope) ==
    [i \in 1..Len(candidates) |->
        EnrichOne(candidates[i],
                  IF scope THEN MembershipFor(scoped, candidates[i].id) ELSE <<>>, scope)]

\* the record pickUserField reads: the user's own fields and the enrichment
RuleRecord(e) ==
    [email |-> e.user.email, phone |-> e.user.phone, name |-> e.user.name,
     surname |-> e.user.surname, birthday |-> e.user.birthday,
     preferences |-> e.user.preferences, tokens |-> e.tokens]

MatchesRules(e, rules) ==
    \A i \in 1..Len(rules) :
        matchesOperator(pickUserField(RuleRecord(e), rules[i].field), rules[i].operator,
                        rules[i].value)

filteredByRules(enriched, rules) == SelectSeq(enriched, LAMBDA e : MatchesRules(e, rules))

\* v ?? '' of a text field
TextOrEmpty(v) == IF v.t = "str" THEN v.s ELSE <<>>

FullName(name, surname) ==
    ToLowerCase(Trim(TextOrEmpty(name) \o <<" ">> \o TextOrEmpty(surname)))

\* a search that does not compare the digits
MatchesSearchNoDigits(e, search) ==
    LET fullName == FullName(e.user.name, e.user.surname)
        email == ToLowerCase(TextOrEmpty(e.user.email))
        phone == TextOrEmpty(e.user.phone)
        sl == ToLowerCase(search)
    IN  \/ (fullName # <<>> /\ Includes(fullName, sl))
        \/ (email # <<>> /\ Includes(email, sl))
        \/ (phone # <<>> /\ Includes(ToLowerCase(phone), sl))

MatchesSearch(e, search) ==
    LET fullName == FullName(e.user.name, e.user.surname)
        email == ToLowerCase(TextOrEmpty(e.user.email))
        phone == TextOrEmpty(e.user.phone)
        phoneDigits == DigitsOnly(phone)
        sl == ToLowerCase(search)
        sDigits == DigitsOnly(search)
    IN  \/ (fullName # <<>> /\ Includes(fullName, sl))
        \/ (email # <<>> /\ Includes(email, sl))
        \/ (phone # <<>> /\ Includes(ToLowerCase(phone), sl))
        \/ (sDigits # <<>> /\ phoneDigits # <<>> /\ Includes(phoneDigits, sDigits))

filteredBySearch(rows, search) ==
    IF search # <<>> THEN SelectSeq(rows, LAMBDA e : MatchesSearch(e, search)) ELSE rows

\* the filter without its scope test
KeepRowUnscoped(row, req, now) ==
    LET minStamps == ParseMinStamps(req)
        lastVisitDays == ParseLastVisitDays(req)
    IN  /\ ~(minStamps # None /\ OrElse(row.validStamps, 0) < minStamps[1])
        /\ ~(req.filters.couponsOnly = TRUE /\ OrElse(row.validCoupons, 0) <= 0)
        /\ ~(lastVisitDays # None /\ OrElse(row.lastVisitedAt, 0) < now - lastVisitDays[1])

\* the predicate of the filter at 568-582
KeepRow(row, req, now) ==
    LET minStamps == ParseMinStamps(req)
        lastVisitDays == ParseLastVisitDays(req)
    IN  /\ ~(requiresScope(req) /\ ~row.matchesRequestedScope)
        /\ ~(minStamps # None /\ OrElse(row.validStamps, 0) < minStamps[1])
        /\ ~(req.filters.couponsOnly = TRUE /\ OrElse(row.validCoupons, 0) <= 0)
        /\ ~(lastVisitDays # None /\ OrElse(row.lastVisitedAt, 0) < now - lastVisitDays[1])

filtered(rows, req, now) == SelectSeq(rows, LAMBDA row : KeepRow(row, req, now))

\* the comparator of the sort at 585-610, before the multiplier
CompareBy(a, b, sortBy) ==
    CASE sortBy = "stamp" ->
            OrElse(a.totalStamps, OrElse(a.validStamps, 0))
                - OrElse(b.totalStamps, OrElse(b.validStamps, 0))
      [] sortBy = "coupon" -> OrElse(a.validCoupons, 0) - OrElse(b.validCoupons, 0)
      [] sortBy = "lastVisit" -> OrElse(a.lastVisitedAt, 0) - OrElse(b.lastVisitedAt, 0)
      [] OTHER -> LocaleCompare(FullName(a.user.name, a.user.surname),
                                FullName(b.user.name, b.user.surname))

\* the comparator without the multiplier
ComparatorAscending(a, b, sortBy, sortOrder) == CompareBy(a, b, sortBy)

Comparator(a, b, sortBy, sortOrder) ==
    CompareBy(a, b, sortBy) * (IF sortOrder = "desc" THEN 0 - 1 ELSE 1)

\* x put into the sorted run q before the elements that compare equal to it
InsertSortedBeforeEqual(q, x, sortBy, sortOrder) ==
    LET le == {i \in 1..Len(q) : Comparator(q[i], x, sortBy, sortOrder) < 0}
        k == IF le = {} THEN 0 ELSE CHOOSE i \in le : \A j \in le : j <= i
    IN  SubSeq(q, 1, k) \o <<x>> \o SubSeq(q, k + 1, Len(q))

\* x put into the sorted run q behind every element that does not come after it
InsertSorted(q, x, sortBy, sortOrder) ==
    LET le == {i \in 1..Len(q) : Comparator(q[i], x, sortBy, sortOrder) <= 0}
        k == IF le = {} THEN 0 ELSE CHOOSE i \in le : \A j \in le : j <= i
    IN  SubSeq(q, 1, k) \o <<x>> \o SubSeq(q, k + 1, Len(q))

\* Array.prototype.sort: a stable sort by the comparator
RECURSIVE sorted(_, _, _)
sorted(rows, sortBy, sortOrder) ==
    IF rows = <<>> THEN <<>>
    ELSE InsertSorted(sorted(SubSeq(rows, 1, Len(rows) - 1), sortBy, sortOrder),
                      rows[Len(rows)], sortBy, sortOrder)

effectiveTake(cfg, req) ==
    IF ParseSearch(req) # <<>>
    THEN Min(Max(Take(cfg, req), ParseLimit(req) * 20), Max(Take(cfg, req), ParseLimit(req) * 20))
    ELSE Take(cfg, req)

\* a slice that answers an offset beyond the end with the last page
pagedLastPage(rows, cfg, req) ==
    LET window == Slice(rows, 0, effectiveTake(cfg, req))
        start == IF ParseOffset(req) >= Len(window)
                 THEN Max(0, Len(window) - ParseLimit(req)) ELSE ParseOffset(req)
    IN  Slice(window, start, start + ParseLimit(req))

paged(rows, cfg, req) ==
    Slice(Slice(rows, 0, effectiveTake(cfg, req)), ParseOffset(req),
          ParseOffset(req) + ParseLimit(req))

\* one element of the response (617-635)
ShapeUser(e) ==
    [id |-> e.user.id,
     email |-> e.user.email,
     phone |-> e.user.phone,
     firstName |-> e.user.name,
     lastName |-> e.user.surname,
     attributes |-> [preferences |-> IF e.user.preferences.isObject THEN e.user.preferences.kv
                                     ELSE [k \in {} |-> Undef],
                     birthday |-> e.user.birthday,
                     stamps |-> e.validStamps,
                     tokens |-> e.tokens],
     stats |-> [validStamps |-> OrElse(e.validStamps, 0),
                totalStamps |-> OrElse(e.totalStamps, OrElse(e.validStamps, 0)),
                validCoupons |-> OrElse(e.validCoupons, 0),
                lastVisit |-> e.lastVisitedAt]]

ShapeAll(page) == [i \in 1..Len(page) |-> ShapeUser(page[i])]

\* the response body (617-635) of the page (615) of the sorted rows
PipelineSorted(cfg, req, enriched, byRules, kept, inOrder) ==
    [enriched |-> enriched, filteredByRules |-> byRules, filtered |-> kept,
     sorted |-> inOrder, users |-> ShapeAll(paged(inOrder, cfg, req))]

PipelineKept(cfg, req, enriched, byRules, kept) ==
    PipelineSorted(cfg, req, enriched, byRules, kept,
                   sorted(kept, ParseSortBy(req), ParseSortOrder(req)))

\* the search (551-566), the filter (568-582) and the sort (584-610)
PipelineByRules(cfg, req, now, enriched, byRules) ==
    PipelineKept(cfg, req, enriched, byRules,
                 filtered(filteredBySearch(byRules, ParseSearch(req)), req, now))

\* a rule filter that resolves the placeholders when it runs
PipelineEnrichedLateRules(cfg, req, now, enriched, rules) ==
    PipelineByRules(cfg, req, now, enriched,
                    filteredByRules(enriched, processedRules(req, now)))

\* the rule filter (548), with the rules as they were resolved at 451-452
PipelineEnriched(cfg, req, now, enriched, rules) ==
    PipelineByRules(cfg, req, now, enriched, filteredByRules(enriched, rules))

\* load-to-page, given the candidates, the scoped memberships and the
\* resolved rules; now is the clock of the recency filter (572)
Pipeline(cfg, req, now, candidates, scoped, rules) ==
    PipelineEnriched(cfg, req, now, Enrich(candidates, scoped, requiresScope(req)), rules)

(***************************************************************************)
(* State                                                                   *)
(***************************************************************************)
VARIABLES
    cfg,      \* the environment: mock switch, allow-lists, INTERNAL_USERS_QUERY_MAX,
              \* the methods the injected repository has, the tenant mapping
    now,      \* the clock, in days
    users,    \* the user table, newest first
    ms,       \* the membership table
    req,      \* the request: its token and its body
    runs,     \* how many more times the request is sent
    faults,   \* how many more store or mapper calls may fail
    h,        \* the handler of the request in flight: its place, its locals, its reply
    pre,      \* the membership table when the request in flight arrived
    prev,     \* the reply to the previous run of the request, and the table it ran on
    peer,     \* the runWorker of another request with a prize, on one subject
    businessesCache,  \* domainMapping: the mapping of the last successful lookup
    me,       \* the GET /api/v1/me calls of one subject on one domain
    ev        \* one rule evaluated for one field value: its operands, its place, its results

vars == <<cfg, now, users, ms, req, runs, faults, h, pre, prev, peer, businessesCache, me, ev>>

NoStage == [enriched |-> <<>>, filteredByRules |-> <<>>, filtered |-> <<>>, sorted |-> <<>>,
            users |-> <<>>]

NoReply == [status |-> 0, error |-> "", users |-> <<>>]

\* the handler before a request arrives
Idle ==
    [pc |-> "idle", take |-> 0, rules |-> <<>>, candidates |-> <<>>, queue |-> <<>>, inflight |-> {}, collected |-> <<>>,
     stage |-> NoStage, target |-> Nil, dqueue |-> <<>>, dflight |-> {}, attempted |-> <<>>,
     failed |-> {}, lookupFailed |-> {}, mapperFailed |-> FALSE, log |-> <<>>, reads |-> 0,
     writes |-> 0,
     resp |-> NoReply]

NoPrev == [valid |-> FALSE, resp |-> NoReply, ms |-> <<>>, now |-> 0]

(***************************************************************************)
(* The replies                                                             *)
(***************************************************************************)
Reply(hh, status, error, us) ==
    [hh EXCEPT !.pc = "done", !.resp = [status |-> status, error |-> error, users |-> us]]

Txt(name) ==
    CASE name = "Mock" -> <<"M", "o", "c", "k">>
      [] name = "UserOne" -> <<"U", "s", "e", "r", "O", "n", "e">>
      [] name = "UserTwo" -> <<"U", "s", "e", "r", "T", "w", "o">>
      [] name = "mock1" -> <<"m", "o", "c", "k", "1", "@", "e", "x", "a", "m", "p", "l", "e", ".", "c", "o", "m">>
      [] name = "mock2" -> <<"m", "o", "c", "k", "2", "@", "e", "x", "a", "m", "p", "l", "e", ".", "c", "o", "m">>
      [] name = "phone1" -> <<"+", "3", "9", "0", "0", "0", "0", "0", "0", "0", "0", "1">>
      [] name = "phone2" -> <<"+", "3", "9", "0", "0", "0", "0", "0", "0", "0", "0", "2">>
      [] name = "bday1" -> <<"1", "9", "9", "0", "-", "0", "1", "-", "0", "1">>
      [] OTHER -> <<"1", "9", "8", "5", "-", "1", "2", "-", "3", "1">>

\* the fixed users of the INTERNAL_USERS_QUERY_MOCK switch
MockUsers(t) ==
    <<[id |-> "mock-user-1", email |-> Str(Txt("mock1")), phone |-> Str(Txt("phone1")),
       firstName |-> Str(Txt("Mock")), lastName |-> Str(Txt("UserOne")),
       attributes |-> [preferences |-> [k \in {} |-> Undef], birthday |-> Str(Txt("bday1")),
                       stamps |-> Some(3), tokens |-> Some(0)],
       stats |-> [validStamps |-> 3, totalStamps |-> 3, validCoupons |-> 0, lastVisit |-> Some(t)]],
      [id |-> "mock-user-2", email |-> Str(Txt("mock2")), phone |-> Str(Txt("phone2")),
       firstName |-> Str(Txt("Mock")), lastName |-> Str(Txt("UserTwo")),
       attributes |-> [preferences |-> [k \in {} |-> Undef], birthday |-> Str(Txt("bday2")),
                       stamps |-> Some(10), tokens |-> Some(2)],
       stats |-> [validStamps |-> 10, totalStamps |-> 12, validCoupons |-> 1, lastVisit |-> Some(t)]]>>

(***************************************************************************)
(* The coupon dispatcher (637-670).  An item in flight is at "get" (the    *)
(* service's getMembership), at "setGet" (the getMembership inside         *)
(* setMembershipCounters) or at "update" (its prisma update).              *)
(***************************************************************************)
NoData == [validStamps |-> None, validCoupons |-> 0, totalStamps |-> None, totalCoupons |-> 0]

Item(id, step, nextValid, rowId, data) ==
    [id |-> id, step |-> step, nextValid |-> nextValid, rowId |-> rowId, data |-> data]

Fresh(id) == Item(id, "get", 0, 0, NoData)

\* no other request is dispatching
NoPeer == Item(Nil, "off", 0, 0, NoData)

\* the counters the service hands to setMembershipCounters
DispatchCounters(nextValid) ==
    [validStamps |-> None, validCoupons |-> Some(nextValid), totalStampsDelta |-> None,
     totalCouponsDelta |-> Some(1)]

\* a dispatcher that queues the whole candidate window instead of the page
StartDispatchWindow(hh, t) ==
    LET ids == UserIds(hh.candidates)
        n == Min(DispatchConcurrency, Len(ids))
    IN  IF n = 0 THEN Reply([hh EXCEPT !.target = t], 200, "", hh.stage.users)
        ELSE [hh EXCEPT !.target = t, !.pc = "dispatch",
                        !.dflight = {Fresh(ids[i]) : i \in 1..n},
                        !.dqueue = SubSeq(ids, n + 1, Len(ids)),
                        !.attempted = SubSeq(ids, 1, n),
                        !.reads = hh.reads + n]

\* the workers start: each of the first DispatchConcurrency takes an item and
\* calls getMembership; the response follows at once when the page is empty
StartDispatch(hh, t) ==
    LET ids == [i \in 1..Len(hh.stage.users) |-> hh.stage.users[i].id]
        n == Min(DispatchConcurrency, Len(ids))
    IN  IF n = 0 THEN Reply([hh EXCEPT !.target = t], 200, "", hh.stage.users)
        ELSE [hh EXCEPT !.target = t, !.pc = "dispatch",
                        !.dflight = {Fresh(ids[i]) : i \in 1..n},
                        !.dqueue = SubSeq(ids, n + 1, Len(ids)),
                        !.attempted = SubSeq(ids, 1, n),
                        !.reads = hh.reads + n]

\* a dispatcher that answers when the first worker finds the queue empty
NextItemFirstDone(hh, it) ==
    LET rest == hh.dflight \ {it}
    IN  IF hh.dqueue # <<>>
        THEN [hh EXCEPT !.dflight = rest \cup {Fresh(Head(hh.dqueue))},
                        !.dqueue = Tail(hh.dqueue),
                        !.attempted = Append(hh.attempted, Head(hh.dqueue)),
                        !.reads = hh.reads + 1]
        ELSE Reply([hh EXCEPT !.dflight = rest], 200, "", hh.stage.users)

\* a worker is through with item it: it takes the next of the queue, or ends;
\* the response follows the end of the last worker
NextItem(hh, it) ==
    LET rest == hh.dflight \ {it}
    IN  IF hh.dqueue # <<>>
        THEN [hh EXCEPT !.dflight = rest \cup {Fresh(Head(hh.dqueue))},
                        !.dqueue = Tail(hh.dqueue),
                        !.attempted = Append(hh.attempted, Head(hh.dqueue)),
                        !.reads = hh.reads + 1]
        ELSE IF rest = {} THEN Reply([hh EXCEPT !.dflight = {}], 200, "", hh.stage.users)
        ELSE [hh EXCEPT !.dflight = rest]

\* runWorker without its try/catch: the failure reaches the catch at 673
CaughtRethrown(hh, it) ==
    Reply([hh EXCEPT !.failed = hh.failed \cup {it.id},
                     !.log = Append(hh.log, [level |-> "error", id |-> Nil])], 500,
          "INTERNAL_ERROR", <<>>)

\* the catch of runWorker: request.log.warn
Caught(hh, it) ==
    NextItem([hh EXCEPT !.failed = hh.failed \cup {it.id},
                        !.log = Append(hh.log, [level |-> "warn", id |-> it.id])], it)

\* the prize branch once the page is shaped and, for a brand, once the
\* mapping is known (entries)
ResolveTarget(r, entries) ==
    IF r.businessId # Nil THEN r.businessId
    ELSE IF r.brandId # Nil
    THEN LET hit == SelectSeq(entries, LAMBDA e : e.brandId = r.brandId /\ e.businessId # Nil)
         IN  IF hit = <<>> THEN Nil ELSE hit[1].businessId
    ELSE Nil

HasPrize(r) == r.prize.has /\ r.prize.id # ""

AfterTarget(hh, t) ==
    IF t # Nil THEN StartDispatch(hh, t) ELSE Reply(hh, 200, "", hh.stage.users)

\* a prize branch entered without a prize id
AfterStagePrizeOptional(h1, r) ==
    IF r.businessId = Nil /\ r.brandId # Nil THEN [h1 EXCEPT !.pc = "mapping"]
    ELSE AfterTarget(h1, ResolveTarget(r, <<>>))

\* the prize branch (637-670) up to its first await
AfterStage(h1, r) ==
    IF ~HasPrize(r) THEN Reply(h1, 200, "", h1.stage.users)
    ELSE IF r.businessId = Nil /\ r.brandId # Nil THEN [h1 EXCEPT !.pc = "mapping"]
    ELSE AfterTarget(h1, ResolveTarget(r, <<>>))

\* everything from the enrichment map to the next await
AfterMemberships(hh, c, r, t, scoped) ==
    AfterStage([hh EXCEPT !.stage = Pipeline(c, r, t, hh.candidates, scoped, hh.rules)], r)

\* which bulk lookup the service calls (482-485), "none" when it calls none
BulkKind(c, r) ==
    IF r.businessId # Nil /\ c.repo.bulkBusiness THEN "business"
    ELSE IF r.brandId # Nil /\ c.repo.bulkBrand THEN "brand"
    ELSE "none"

\* a fallback that fires every lookup at once
AfterLoadUnbounded(hh, c, r, t, cands) ==
    LET h1 == [hh EXCEPT !.candidates = cands]
        ids == UserIds(cands)
    IN  IF requiresScope(r) /\ BulkKind(c, r) # "none"
        THEN [h1 EXCEPT !.pc = "bulk", !.reads = h1.reads + 1]
        ELSE IF requiresScope(r) /\ c.repo.listMemberships /\ ids # <<>>
        THEN [h1 EXCEPT !.pc = "fallback", !.inflight = SeqToSet(ids),
                        !.reads = h1.reads + Len(ids)]
        ELSE AfterMemberships(h1, c, r, t, <<>>)

\* the candidates are loaded: the scoped memberships are looked up in bulk,
\* by the fallback workers (each of the first FallbackConcurrency takes an id
\* and calls listMemberships), or not at all
AfterLoad(hh, c, r, t, cands) ==
    LET h1 == [hh EXCEPT !.candidates = cands]
        ids == UserIds(cands)
        n == Min(FallbackConcurrency, Len(ids))
    IN  IF requiresScope(r) /\ BulkKind(c, r) # "none"
        THEN [h1 EXCEPT !.pc = "bulk", !.reads = h1.reads + 1]
        ELSE IF requiresScope(r) /\ c.repo.listMemberships /\ n > 0
        THEN [h1 EXCEPT !.pc = "fallback", !.inflight = {ids[i] : i \in 1..n},
                        !.queue = SubSeq(ids, n + 1, Len(ids)),
                        !.reads = h1.reads + n]
        ELSE AfterMemberships(h1, c, r, t, <<>>)

\* the candidate load (454-461): the scoped listing when the repository has
\* it, the unscoped listing otherwise
LoadCandidates(c, r, us, table) ==
    IF r.businessId # Nil /\ c.repo.findByBusiness
    THEN findUsersForTargetingByBusiness(us, table, r.businessId, Take(c, r))
    ELSE IF r.businessId = Nil /\ r.brandId # Nil /\ c.repo.findByBrand
    THEN findUsersForTargetingByBrand(us, table, r.brandId, Take(c, r))
    ELSE findUsersForTargeting(us, Take(c, r))

\* what a fallback worker keeps of one user's memberships (496-497)
ScopedOf(list, r) ==
    IF r.businessId # Nil THEN SelectSeq(list, LAMBDA m : m.businessId = r.businessId)
    ELSE IF r.brandId # Nil THEN SelectSeq(list, LAMBDA m : m.brandId = r.brandId)
    ELSE <<>>

(***************************************************************************)
(* The inputs: tables, environments and requests of bounded size           *)
(***************************************************************************)
NumUsers == 3

MaxRuns == 2

MaxFaults == 1

\* 2026-11-02
Today == DaysFromCivil(2026, 11, 2)

\* the table of the paging example: 25 users
PagingUsers == 25

\* the table of the worker pools: more users than the dispatcher has workers
PoolUsers == 14

\* how many GET /api/v1/me calls of the subject may overlap
MeCalls == 2

\* how many midnights pass
MaxTicks == 2

\* a call of getMeService before it arrives
MeOff == [pc |-> "off", round |-> 0, rowId |-> 0, status |-> 0]

\* nobody calls GET /api/v1/me
NoMe ==
    [sub |-> Nil, domain |-> [businessId |-> Nil, brandId |-> Nil],
     calls |-> [c \in 1..MeCalls |-> MeOff]]

\* no rule is being evaluated
NoEv ==
    [pc |-> "off", field |-> "", a |-> Undef, op |-> "", b |-> Undef, clock |-> 0,
     out |-> Undef, match |-> FALSE, again |-> Undef]

UserIdOf == [i \in 1..(NumUsers + PagingUsers) |-> "u" \o ToString(i)]

Prefs(isObject, vip) == [isObject |-> isObject, kv |-> [vip |-> vip]]

\* the user created i-th from last; four kinds of user take turns
UserOf(i) ==
    LET k == ((i - 1) % 4) + 1
    IN  CASE k = 1 ->
              [id |-> UserIdOf[i], email |-> Str(<<"a", "@", "t", "e", "s", "t">>),
               phone |-> Str(<<"+", "3", "9", "-", "3", "3", "3", "-", "1", "2">>),
               name |-> Str(<<"B", "o">>), surname |-> Str(<<"A">>),
               birthday |-> Str(<<"1", "9", "9", "0", "-", "0", "1", "-", "0", "5">>),
               preferences |-> Prefs(TRUE, Str(<<"y">>))]
          [] k = 2 ->
              [id |-> UserIdOf[i], email |-> Str(<<"b", "@", "x">>), phone |-> NullV,
               name |-> Str(<<"a", "l">>), surname |-> NullV,
               birthday |-> Str(<<"2", "0", "0", "0", "-", "1", "1", "-", "0", "2">>),
               preferences |-> Prefs(TRUE, Num(1))]
          [] k = 3 ->
              [id |-> UserIdOf[i], email |-> NullV, phone |-> Str(<<"3", "9", "3", "3", "3">>),
               name |-> Str(<<"A", "l">>), surname |-> Str(<<>>),
               birthday |-> NullV,
               preferences |-> Prefs(FALSE, Undef)]
          [] OTHER ->
              [id |-> UserIdOf[i], email |-> Str(<<"c", "@", "T", "E", "S", "T">>), phone |-> NullV,
               name |-> NullV, surname |-> Str(<<"b", "o">>),
               birthday |-> Str(<<"1", "9", "9", "0", "-", "0", "1", "-", "0", "5">>),
               preferences |-> Prefs(TRUE, Str(<<"n">>))]

AllUsers == [i \in 1..NumUsers |-> UserOf(i)]

Mship(userId, businessId, brandId, vs, ts, tok, vc, tc, lv) ==
    [id |-> 0, userId |-> userId, businessId |-> businessId, brandId |-> brandId,
     validStamps |-> vs, totalStamps |-> ts, tokens |-> tok, validCoupons |-> vc,
     totalCoupons |-> tc, lastVisitedAt |-> lv]

\* the memberships a user may hold: none; one of business b1; one of b1 and
\* one of b2, both of brand br1; one of brand br2 alone; one of business b2
\* of brand br1 alone (kind 4)
MembershipsOf(userId, kind) ==
    CASE kind = 0 -> <<>>
      [] kind = 1 -> <<Mship(userId, "b1", "br1", Some(2), None, None, 1, 1, Some(Today - 3))>>
      [] kind = 2 -> <<Mship(userId, "b1", "br1", Some(5), Some(7), Some(4), 0, 2, None),
                       Mship(userId, "b2", "br1", Some(1), Some(1), None, 2, 2, Some(Today - 40))>>
      [] kind = 4 -> <<Mship(userId, "b2", "br1", Some(3), Some(3), None, 1, 1, Some(Today - 2))>>
      [] OTHER -> <<Mship(userId, Nil, "br2", None, None, None, 0, 0, Some(Today - 1))>>

MembershipKinds == 0..3

RECURSIVE Concat(_)
Concat(qq) == IF qq = <<>> THEN <<>> ELSE Head(qq) \o Concat(Tail(qq))

\* the membership table in which user i holds the memberships of kinds[i];
\* a row's id is its place in the table
TableOf(kinds) ==
    LET rows == Concat([i \in 1..NumUsers |-> MembershipsOf(UserIdOf[i], kinds[i])])
    IN  [i \in 1..Len(rows) |-> [rows[i] EXCEPT !.id = i]]

\* user i holds kind (i mod 4): one of each kind of user
MixedKinds == [i \in 1..NumUsers |-> i % 4]

\* the methods of RepositoryPrisma
PrismaRepo ==
    [present |-> TRUE, findByBusiness |-> TRUE, findByBrand |-> TRUE, bulkBusiness |-> FALSE,
     bulkBrand |-> FALSE, listMemberships |-> TRUE]

\* the methods of the in-memory repository of the tests
MemoryRepo ==
    [present |-> TRUE, findByBusiness |-> FALSE, findByBrand |-> FALSE, bulkBusiness |-> FALSE,
     bulkBrand |-> FALSE, listMemberships |-> TRUE]

\* a repository with the bulk lookups
BulkRepo ==
    [present |-> TRUE, findByBusiness |-> TRUE, findByBrand |-> TRUE, bulkBusiness |-> TRUE,
     bulkBrand |-> TRUE, listMemberships |-> TRUE]

\* domainMapping businessesCache: unset, or a value that has expired or not
NoCache == [set |-> FALSE, fresh |-> FALSE, value |-> <<>>]

Cached(entries, fresh) == [set |-> TRUE, fresh |-> fresh, value |-> entries]

BaseCfg ==
    [mock |-> FALSE, serviceAudience |-> <<>>, allowedAudiences |-> {}, maxTakeEnv |-> NotFinite,
     repo |-> PrismaRepo, mapping |-> <<[brandId |-> "br1", businessId |-> "b1"]>>,
     cache |-> NoCache]

NoAud == [kind |-> "none", list |-> <<>>]

Token(kind, azp, aud) == [kind |-> kind, azp |-> azp, aud |-> aud]

ServiceToken == Token("verified", "campaign-service", NoAud)

Tokens ==
    {Token("none", Nil, NoAud),
     Token("invalid", "campaign-service", NoAud),
     ServiceToken,
     Token("verified", "crm-service", NoAud),
     Token("verified", Nil, NoAud),
     Token("verified", "web", [kind |-> "str", list |-> <<"user-service">>]),
     Token("verified", "web", [kind |-> "arr", list |-> <<"account", "crm-service">>]),
     Token("verified", "web", [kind |-> "arr", list |-> <<"account">>])}

NoFilters == [minStamps |-> NotFinite, couponsOnly |-> FALSE, lastVisitDays |-> NotFinite]

BaseReq ==
    [token |-> ServiceToken, limit |-> NotFinite, page |-> NotFinite, offset |-> NotFinite,
     rules |-> <<>>, search |-> [isStr |-> FALSE, s |-> <<>>], sortBy |-> "absent",
     sortOrder |-> "absent", filters |-> NoFilters, minStamp |-> NotFinite,
     businessId |-> Nil, brandId |-> Nil, prize |-> [has |-> FALSE, id |-> ""]]

Rule(database, field, operator, value) ==
    [database |-> database, field |-> field, operator |-> operator, value |-> value]

AtTest == Str(<<"@", "t", "e", "s", "t">>)

RuleLists ==
    {<<>>,
     <<Rule("USER", "email", "CONTAINS", AtTest)>>,
     <<Rule("USER", "email", "NOT_CONTAINS", AtTest)>>,
     <<Rule("CAMPAIGN", "email", "EQUALS", Str(<<"z">>))>>,
     <<Rule("CAMPAIGN", "email", "EQUALS", Str(<<"z">>)), Rule("USER", "name", "NOT_EQUALS", Str(<<"a", "l">>))>>,
     <<Rule("USER", "email", "CONTAINS", Str(<<"@">>)),
       Rule("USER", "birthday", "GREATER_THAN", Str(<<"1", "9", "9", "5", "-", "0", "1", "-", "0", "1">>))>>,
     <<Rule("USER", "birthday", "LESS_THAN", Str(<<"1", "9", "9", "5", "-", "0", "1", "-", "0", "1">>))>>,
     <<Rule("USER", "birthday", "CONTAINS", Str(<<"$", "{">> \o TokTodaySuffix \o <<"}">>))>>,
     <<Rule("USER", "stamps", "GREATER_THAN", Num(1))>>,
     <<Rule("USER", "tokens", "GREATER_THAN", Num(3))>>,
     <<Rule("USER", "firstName", "IN", Arr(<<Str(<<"a", "l">>), Str(<<"B", "o">>)>>))>>,
     <<Rule("USER", "surname", "NOT_IN", Arr(<<NullV>>))>>,
     <<Rule("USER", "email", "LIKE", AtTest)>>,
     <<Rule("USER", "vip", "EQUALS", Str(<<"y">>))>>}

SortFields == {"absent", "name", "stamp", "coupon", "lastVisit", "email"}

SortOrders == {"absent", "asc", "desc", "DESC"}

\* a page size of two on the table of three makes the page cut
Two == Raw(20)

Begin(c, r, kinds, n, f) ==
    /\ cfg = c
    /\ now = Today
    /\ users = AllUsers
    /\ ms = TableOf(kinds)
    /\ req = r
    /\ runs = n
    /\ faults = f
    /\ h = Idle
    /\ pre = <<>>
    /\ prev = NoPrev
    /\ peer = NoPeer
    /\ businessesCache = cfg.cache
    /\ me = NoMe
    /\ ev = NoEv

\* tokens, allow-lists, the mock switch, a server without repository
InitAuth ==
    \E mock \in BOOLEAN, sa \in {<<>>, <<"crm-service">>}, aa \in {{}, {"crm-service"}},
       repo \in {PrismaRepo, [PrismaRepo EXCEPT !.present = FALSE]}, tk \in Tokens,
       lim \in {NotFinite, Raw(10)} :
        Begin([BaseCfg EXCEPT !.mock = mock, !.serviceAudience = sa, !.allowedAudiences = aa,
                              !.repo = repo],
              [BaseReq EXCEPT !.token = tk, !.limit = lim], MixedKinds, 1, 0)

\* limit, page, offset and INTERNAL_USERS_QUERY_MAX
InitPage ==
    \E lim \in {NotFinite, Raw(0), Raw(0 - 10), Raw(10), Raw(25), Raw(30), Raw(2500)},
       pg \in {NotFinite, Raw(0), Raw(10), Raw(25), Raw(30)},
       off \in {NotFinite, Raw(0 - 10), Raw(0), Raw(15), Raw(20), Raw(40)},
       mx \in {NotFinite, Raw(0), Raw(10), Raw(25)},
       ord \in {"asc", "desc"} :
        Begin([BaseCfg EXCEPT !.maxTakeEnv = mx],
              [BaseReq EXCEPT !.limit = lim, !.page = pg, !.offset = off, !.sortOrder = ord],
              MixedKinds, 1, 0)

\* targeting rules, with and without a scope
InitRules ==
    \E rl \in RuleLists, b \in {Nil, "b1"}, lim \in {NotFinite, Two} :
        Begin(BaseCfg, [BaseReq EXCEPT !.rules = rl, !.businessId = b, !.limit = lim],
              [i \in 1..NumUsers |-> IF i = 1 THEN 2 ELSE 1], 1, 0)

\* scopes, repositories and tables; the request is sent MaxRuns times
InitScope ==
    \E b \in {Nil, "b1", "b2"}, br \in {Nil, "br1", "br2"},
       repo \in {PrismaRepo, MemoryRepo, BulkRepo},
       kinds \in [1..NumUsers -> MembershipKinds], f \in {0, MaxFaults} :
        /\ kinds[1] = 2
        /\ Begin([BaseCfg EXCEPT !.repo = repo], [BaseReq EXCEPT !.businessId = b, !.brandId = br],
                 kinds, IF f = 0 THEN MaxRuns ELSE 1, f)

\* sort fields and directions
InitSort ==
    \E sb \in SortFields, so \in SortOrders, b \in {Nil, "b1"}, br \in {Nil, "br1"},
       kinds \in [1..NumUsers -> MembershipKinds], lim \in {NotFinite, Two} :
        /\ kinds[1] = 2
        /\ b # Nil => br = Nil
        /\ Begin([BaseCfg EXCEPT !.repo = BulkRepo],
                 [BaseReq EXCEPT !.sortBy = sb, !.sortOrder = so, !.businessId = b, !.brandId = br,
                                 !.limit = lim],
                 kinds, 1, 0)

\* prizes: a business, a mapped brand, an unmapped brand, no scope
InitPrize ==
    \E pz \in {[has |-> TRUE, id |-> "p1"], [has |-> TRUE, id |-> ""]},
       sc \in {<<"b1", Nil>>, <<"b2", Nil>>, <<Nil, "br1">>, <<Nil, "br2">>, <<Nil, Nil>>},
       lim \in {NotFinite, Two}, f \in {0, MaxFaults},
       kinds \in {[i \in 1..NumUsers |-> 1], [i \in 1..NumUsers |-> IF i = 2 THEN 2 ELSE 1],
                  [i \in 1..NumUsers |-> IF i = 2 THEN 0 ELSE 2],
                  [i \in 1..NumUsers |-> IF i = 2 THEN 4 ELSE 1]},
       ca \in {NoCache, Cached(BaseCfg.mapping, FALSE), Cached(BaseCfg.mapping, TRUE),
               Cached(<<>>, TRUE)} :
        /\ ca = NoCache \/ (sc[1] = Nil /\ sc[2] # Nil /\ lim = Two /\ kinds[2] = 1)
        /\ Begin([BaseCfg EXCEPT !.cache = ca],
                 [BaseReq EXCEPT !.prize = pz, !.businessId = sc[1], !.brandId = sc[2],
                                 !.limit = lim],
                 kinds, MaxRuns, f)

\* filters, rules and offsets that may leave nobody
InitFilters ==
    \E fl \in {NoFilters, [NoFilters EXCEPT !.minStamps = Raw(990)],
                [NoFilters EXCEPT !.couponsOnly = TRUE],
                [NoFilters EXCEPT !.lastVisitDays = Raw(10)]},
       b \in {Nil, "b1"}, off \in {NotFinite, Raw(20), Raw(500)},
       rl \in {<<>>, <<Rule("USER", "email", "CONTAINS", Str(<<"z", "z">>))>>},
       pz \in BOOLEAN, f \in {0, MaxFaults} :
        Begin(BaseCfg,
              [BaseReq EXCEPT !.filters = fl, !.businessId = b, !.offset = off, !.rules = rl,
                              !.prize = [has |-> pz, id |-> IF pz THEN "p1" ELSE ""]],
              MixedKinds, 1, f)

\* the stamp threshold, in filters.minStamps and in the legacy field minStamp
InitStamps ==
    \E m \in {NotFinite, Raw(0 - 10), Raw(0), Raw(20), Raw(59), Raw(60)},
       legacy \in {NotFinite, Raw(30), Raw(50)},
       b \in {Nil, "b1", "b2"}, repo \in {PrismaRepo, MemoryRepo} :
        Begin([BaseCfg EXCEPT !.repo = repo],
              [BaseReq EXCEPT !.filters = [NoFilters EXCEPT !.minStamps = m],
                              !.minStamp = legacy, !.businessId = b],
              [i \in 1..NumUsers |-> IF i = 1 THEN 2 ELSE IF i = 2 THEN 1 ELSE 0], 1, 0)

\* the activity window, from a day to more days than the clock counts
InitVisits ==
    \E lv \in {NotFinite, Raw(0), Raw(35), Raw(400), Raw(300000)}, b \in {Nil, "b1", "b2"} :
        Begin(BaseCfg,
              [BaseReq EXCEPT !.filters = [NoFilters EXCEPT !.lastVisitDays = lv],
                              !.businessId = b],
              [i \in 1..NumUsers |-> IF i = 1 THEN 2 ELSE 1], 1, 0)

\* the search terms: none, blank, a formatted phone prefix, parts of names
\* and emails in either case, a letter of a phone, punctuation
SearchTerms ==
    {<<>>, <<" ">>, <<"+", "3", "9", " ", "3", "3", "3">>, <<"A", "L">>, <<" ", "b", "o", " ", "a">>,
     <<"q">>, <<"@", "T">>, <<"7", " ">>, <<"-">>, <<"z", "z">>, <<"9", "9">>}

\* the second user's phone holds a capital letter
InitSearch ==
    \E isStr \in BOOLEAN, term \in SearchTerms, b \in {Nil, "b1"} :
        /\ isStr \/ term = <<>>
        /\ cfg = BaseCfg
        /\ now = Today
        /\ users = [AllUsers EXCEPT ![2].phone = Str(<<"Q", "7">>)]
        /\ ms = TableOf([i \in 1..NumUsers |-> 1])
        /\ req = [BaseReq EXCEPT !.search = [isStr |-> isStr, s |-> term], !.businessId = b]
        /\ runs = 1
        /\ faults = 0
        /\ h = Idle
        /\ pre = <<>>
        /\ prev = NoPrev
        /\ peer = NoPeer
        /\ businessesCache = cfg.cache
        /\ me = NoMe
        /\ ev = NoEv

Init ==
    \/ InitAuth
    \/ InitPage
    \/ InitRules
    \/ InitScope
    \/ InitSort
    \/ InitPrize
    \/ InitFilters
    \/ InitStamps
    \/ InitVisits
    \/ InitSearch

\* the worker pools: PoolUsers users, each with a membership of b1; a prize
\* on a repository with the bulk lookups fills the dispatcher, a scope on
\* RepositoryPrisma fills the fallback
InitPool ==
    \E pz \in BOOLEAN, lim \in {NotFinite, Raw(10), Raw(20), Raw(130)} :
        /\ pz \/ lim = Raw(10)
        /\ cfg = [BaseCfg EXCEPT !.repo = IF pz THEN BulkRepo ELSE PrismaRepo]
        /\ now = Today
        /\ users = [i \in 1..PoolUsers |-> UserOf(i)]
        /\ ms = [i \in 1..PoolUsers |->
                    [Mship(UserIdOf[i], "b1", "br1", Some(2), None, None, 1, 1, Some(Today - 3))
                        EXCEPT !.id = i]]
        /\ req = [BaseReq EXCEPT !.businessId = "b1", !.limit = lim,
                                 !.prize = [has |-> pz, id |-> IF pz THEN "p1" ELSE ""]]
        /\ runs = 1
        /\ faults = 0
        /\ h = Idle
        /\ pre = <<>>
        /\ prev = NoPrev
        /\ peer = NoPeer
        /\ businessesCache = cfg.cache
        /\ me = NoMe
        /\ ev = NoEv

\* the candidate window: the table of PagingUsers users, with rules, a
\* search and INTERNAL_USERS_QUERY_MAX
InitWindow ==
    \E lim \in {NotFinite, Raw(10), Raw(20), Raw(100)},
       pg \in {NotFinite, Raw(20), Raw(40)},
       off \in {NotFinite, Raw(30)},
       rl \in {<<>>, <<Rule("USER", "email", "CONTAINS", AtTest)>>,
               <<Rule("USER", "surname", "EQUALS", Str(<<"A">>))>>},
       se \in {[isStr |-> FALSE, s |-> <<>>], [isStr |-> TRUE, s |-> <<>>],
               [isStr |-> TRUE, s |-> <<" ">>], [isStr |-> TRUE, s |-> <<"a", "l">>]},
       mx \in {NotFinite, Raw(0 - 10), Raw(5), Raw(55), Raw(150)} :
        /\ cfg = [BaseCfg EXCEPT !.maxTakeEnv = mx]
        /\ now = Today
        /\ users = [i \in 1..PagingUsers |-> UserOf(i)]
        /\ ms = <<>>
        /\ req = [BaseReq EXCEPT !.limit = lim, !.page = pg, !.offset = off, !.rules = rl,
                                 !.search = se]
        /\ runs = 1
        /\ faults = 0
        /\ h = Idle
        /\ pre = <<>>
        /\ prev = NoPrev
        /\ peer = NoPeer
        /\ businessesCache = cfg.cache
        /\ me = NoMe
        /\ ev = NoEv

\* two requests with a prize: every user but the last is a member of b1 and
\* holds v coupons
InitRace ==
    \E lim \in {Raw(10), Raw(20)}, v \in {0, 1, 2} :
        /\ cfg = [BaseCfg EXCEPT !.repo = BulkRepo]
        /\ now = Today
        /\ users = AllUsers
        /\ ms = [i \in 1..(NumUsers - 1) |->
                    [Mship(UserIdOf[i], "b1", "br1", Some(2), None, None, v, v, Some(Today - 3))
                        EXCEPT !.id = i]]
        /\ req = [BaseReq EXCEPT !.businessId = "b1", !.limit = lim,
                                 !.prize = [has |-> TRUE, id |-> "p1"]]
        /\ runs = 1
        /\ faults = 0
        /\ h = Idle
        /\ pre = <<>>
        /\ prev = NoPrev
        /\ peer = NoPeer
        /\ businessesCache = cfg.cache
        /\ me = NoMe
        /\ ev = NoEv

\* GET /api/v1/me: the subject is user 1, who holds no membership or one of
\* brand br2 alone; the host resolves to a business with its brand, to a
\* business alone, or to a brand alone
InitMe ==
    \E k \in {0, 3},
       d \in {[businessId |-> "b1", brandId |-> "br1"], [businessId |-> "b2", brandId |-> Nil],
              [businessId |-> Nil, brandId |-> "br1"], [businessId |-> Nil, brandId |-> "br2"]} :
        /\ cfg = BaseCfg
        /\ now = Today
        /\ users = AllUsers
        /\ ms = TableOf([i \in 1..NumUsers |-> IF i = 1 THEN k ELSE 1])
        /\ req = BaseReq
        /\ runs = 0
        /\ faults = 0
        /\ h = Idle
        /\ pre = <<>>
        /\ prev = NoPrev
        /\ peer = NoPeer
        /\ businessesCache = NoCache
        /\ me = [NoMe EXCEPT !.sub = UserIdOf[1], !.domain = d]
        /\ ev = NoEv

\* the paging example: a table of PagingUsers users, no scope, no rules, so
\* that the sorted set is the whole candidate window
InitPaging ==
    \E lim \in {NotFinite, Raw(0), Raw(70), Raw(100), Raw(105)},
       pg \in {NotFinite, Raw(0), Raw(10), Raw(20), Raw(25), Raw(30), Raw(40)},
       off \in {NotFinite, Raw(0 - 10), Raw(0), Raw(50), Raw(200), Raw(209), Raw(300)},
       mx \in {NotFinite, Raw(150)},
       so \in {"asc", "desc"} :
        /\ cfg = [BaseCfg EXCEPT !.maxTakeEnv = mx]
        /\ now = Today
        /\ users = [i \in 1..PagingUsers |-> UserOf(i)]
        /\ ms = <<>>
        /\ req = [BaseReq EXCEPT !.limit = lim, !.page = pg, !.offset = off, !.sortOrder = so]
        /\ runs = 1
        /\ faults = 0
        /\ h = Idle
        /\ pre = <<>>
        /\ prev = NoPrev
        /\ peer = NoPeer
        /\ businessesCache = cfg.cache
        /\ me = NoMe
        /\ ev = NoEv

(***************************************************************************)
(* Actions.  One action is one stretch of the handler between two awaits.  *)
(***************************************************************************)
\* a request may arrive when none is in flight
CanArrive == h.pc \in {"idle", "done"} /\ runs > 0

\* the bookkeeping of an arrival; hh is the handler after its first stretch
Arrival(hh) ==
    /\ h' = hh
    /\ runs' = runs - 1
    /\ pre' = ms
    /\ prev' = IF h.pc = "done" THEN [valid |-> TRUE, resp |-> h.resp, ms |-> pre, now |-> now]
               ELSE prev
    /\ UNCHANGED <<cfg, now, users, ms, req, faults, peer, businessesCache, me, ev>>

\* appBuilder onRequest hook: with the mock switch on, the reply is sent
\* before the auth preHandler and the handler run
HookMock ==
    /\ CanArrive
    /\ cfg.mock
    /\ Arrival(Reply(Idle, 200, "", MockUsers(now)))

\* keycloakAuthPlugin preHandler: 401
RejectToken ==
    /\ CanArrive
    /\ ~cfg.mock
    /\ TokenRejected(cfg, req)
    /\ Arrival(Reply(Idle, 401,
                     IF req.token.kind = "invalid" THEN "Invalid or expired token"
                     ELSE "Invalid audience", <<>>))

\* postUsersQueryService 360-362
Forbidden ==
    /\ CanArrive
    /\ ~cfg.mock
    /\ ~TokenRejected(cfg, req)
    /\ ~isServiceRequest(cfg, req)
    /\ Arrival(Reply(Idle, 403, "FORBIDDEN", <<>>))

\* postUsersQueryService 411-415
NoRepository ==
    /\ CanArrive
    /\ ~cfg.mock
    /\ ~TokenRejected(cfg, req)
    /\ isServiceRequest(cfg, req)
    /\ ~cfg.repo.present
    /\ Arrival(Reply([Idle EXCEPT !.log = <<[level |-> "error", id |-> Nil]>>], 500,
                     "INTERNAL_ERROR", <<>>))

\* postUsersQueryService 417-461: the body is parsed and the candidates asked for
StartLoad ==
    /\ CanArrive
    /\ ~cfg.mock
    /\ ~TokenRejected(cfg, req)
    /\ isServiceRequest(cfg, req)
    /\ cfg.repo.present
    /\ Arrival([Idle EXCEPT !.pc = "load", !.reads = 1, !.take = Take(cfg, req),
                             !.rules = processedRules(req, now)])

Step(hh) ==
    h' = hh
    /\ UNCHANGED <<cfg, now, users, ms, req, runs, faults, pre, prev, peer, businessesCache, me, ev>>

Fault(hh) == faults > 0 /\ faults' = faults - 1 /\ h' = hh
             /\ UNCHANGED <<cfg, now, users, ms, req, runs, pre, prev, peer, businessesCache, me, ev>>

\* a catch that answers an empty page
InternalErrorAsEmpty(hh) ==
    Reply([hh EXCEPT !.log = Append(hh.log, [level |-> "error", id |-> Nil])], 200, "", <<>>)

\* the catch at 673-676 and the catch at 510-513: log an error, answer 500
InternalError(hh) ==
    Reply([hh EXCEPT !.log = Append(hh.log, [level |-> "error", id |-> Nil])], 500,
          "INTERNAL_ERROR", <<>>)

LoadOk ==
    /\ h.pc = "load"
    /\ Step(AfterLoad(h, cfg, req, now, LoadCandidates(cfg, req, users, ms)))

LoadFail ==
    /\ h.pc = "load"
    /\ Fault(InternalError(h))

BulkOk ==
    /\ h.pc = "bulk"
    /\ Step(AfterMemberships(h, cfg, req, now,
                IF BulkKind(cfg, req) = "business"
                THEN listMembershipsForUsersByBusiness(ms, UserIds(h.candidates), req.businessId)
                ELSE listMembershipsForUsersByBrand(ms, UserIds(h.candidates), req.brandId)))

BulkFail ==
    /\ h.pc = "bulk"
    /\ Fault(InternalError(h))

\* a fallback worker's listMemberships(id) returns: it keeps the scoped
\* memberships and takes the next id; the enrichment follows the last worker
LookupOk(id) ==
    /\ h.pc = "fallback"
    /\ id \in h.inflight
    /\ LET got == h.collected \o ScopedOf(listMemberships(ms, id), req)
           rest == h.inflight \ {id}
       IN  Step(IF h.queue # <<>>
                THEN [h EXCEPT !.collected = got, !.inflight = rest \cup {Head(h.queue)},
                               !.queue = Tail(h.queue), !.reads = h.reads + 1]
                ELSE IF rest = {}
                THEN AfterMemberships([h EXCEPT !.collected = got, !.inflight = {}], cfg, req,
                                      now, got)
                ELSE [h EXCEPT !.collected = got, !.inflight = rest])

\* a fallback worker's listMemberships(id) throws: the worker's promise
\* rejects, Promise.all rejects, and the catch at 510 answers
LookupFail(id) ==
    /\ h.pc = "fallback"
    /\ id \in h.inflight
    /\ Fault(InternalError([h EXCEPT !.lookupFailed = h.lookupFailed \cup {id}]))

\* fetchDomainBusinesses 113-116: the cache has not expired and is returned
\* without a lookup
MappingCached ==
    /\ h.pc = "mapping"
    /\ businessesCache.set /\ businessesCache.fresh
    /\ Step(AfterTarget(h, ResolveTarget(req, businessesCache.value)))

\* fetchDomainBusinesses 117-128: the mapper answers, the answer is cached
\* and returned
MappingOk ==
    /\ h.pc = "mapping"
    /\ ~(businessesCache.set /\ businessesCache.fresh)
    /\ h' = AfterTarget(h, ResolveTarget(req, cfg.mapping))
    /\ businessesCache' = Cached(cfg.mapping, TRUE)
    /\ UNCHANGED <<cfg, now, users, ms, req, runs, faults, pre, prev, peer, me, ev>>

\* fetchDomainBusinesses 129-131: the mapper is down, the function catches
\* and returns the expired cache, or [] when it never had one
MappingDown ==
    /\ h.pc = "mapping"
    /\ ~(businessesCache.set /\ businessesCache.fresh)
    /\ Fault(AfterTarget([h EXCEPT !.mapperFailed = TRUE],
                         ResolveTarget(req, IF businessesCache.set THEN businessesCache.value
                                            ELSE <<>>)))

\* runWorker 659: getMembership returns, nextValid is computed, and
\* setMembershipCounters is called
DispatchReadOk(it) ==
    /\ h.pc = "dispatch"
    /\ it \in h.dflight
    /\ it.step = "get"
    /\ LET i == getMembership(ms, it.id, h.target)
           nextValid == (IF i = 0 THEN 0 ELSE ms[i].validCoupons) + 1
       IN  Step([h EXCEPT !.dflight = (h.dflight \ {it}) \cup
                                          {Item(it.id, "setGet", nextValid, 0, NoData)},
                          !.reads = h.reads + 1])

DispatchReadFail(it) ==
    /\ h.pc = "dispatch"
    /\ it \in h.dflight
    /\ it.step = "get"
    /\ Fault(Caught(h, it))

\* a setMembershipCounters that creates the row it does not find
DispatchSetGetCreates(it) ==
    /\ h.pc = "dispatch"
    /\ it \in h.dflight
    /\ it.step = "setGet"
    /\ LET i == getMembership(ms, it.id, h.target)
       IN  IF i = 0
           THEN /\ h' = NextItem([h EXCEPT !.writes = h.writes + 1], it)
                /\ ms' = Append(ms, [Mship(it.id, h.target, Nil, Some(0), Some(0), None,
                                          it.nextValid, 1, None) EXCEPT !.id = Len(ms) + 1])
                /\ UNCHANGED <<cfg, now, users, req, runs, faults, pre, prev, peer,
                               businessesCache, me, ev>>
           ELSE Step([h EXCEPT !.dflight = (h.dflight \ {it}) \cup
                          {Item(it.id, "update", it.nextValid, ms[i].id,
                                CountersUpdate(ms[i], DispatchCounters(it.nextValid)))},
                               !.writes = h.writes + 1])

\* setMembershipCounters 189-196: the row is read; without a row it throws
\* MEMBERSHIP_NOT_FOUND, with one it computes the update
DispatchSetGetOk(it) ==
    /\ h.pc = "dispatch"
    /\ it \in h.dflight
    /\ it.step = "setGet"
    /\ LET i == getMembership(ms, it.id, h.target)
       IN  Step(IF i = 0 THEN Caught(h, it)
                ELSE [h EXCEPT !.dflight = (h.dflight \ {it}) \cup
                          {Item(it.id, "update", it.nextValid, ms[i].id,
                                CountersUpdate(ms[i], DispatchCounters(it.nextValid)))},
                               !.writes = h.writes + 1])

DispatchSetGetFail(it) ==
    /\ h.pc = "dispatch"
    /\ it \in h.dflight
    /\ it.step = "setGet"
    /\ Fault(Caught(h, it))

\* setMembershipCounters 197-205: the update is written
DispatchUpdateOk(it) ==
    /\ h.pc = "dispatch"
    /\ it \in h.dflight
    /\ it.step = "update"
    /\ h' = NextItem(h, it)
    /\ ms' = UpdateMembership(ms, it.rowId, it.data)
    /\ UNCHANGED <<cfg, now, users, req, runs, faults, pre, prev, peer, businessesCache, me, ev>>

DispatchUpdateFail(it) ==
    /\ h.pc = "dispatch"
    /\ it \in h.dflight
    /\ it.step = "update"
    /\ Fault(Caught(h, it))

Next ==
    \/ HookMock
    \/ RejectToken
    \/ Forbidden
    \/ NoRepository
    \/ StartLoad
    \/ LoadOk
    \/ LoadFail
    \/ BulkOk
    \/ BulkFail
    \/ \E id \in h.inflight : LookupOk(id)
    \/ \E id \in h.inflight : LookupFail(id)
    \/ MappingCached
    \/ MappingOk
    \/ MappingDown
    \/ \E it \in h.dflight : DispatchReadOk(it)
    \/ \E it \in h.dflight : DispatchReadFail(it)
    \/ \E it \in h.dflight : DispatchSetGetOk(it)
    \/ \E it \in h.dflight : DispatchSetGetFail(it)
    \/ \E it \in h.dflight : DispatchUpdateOk(it)
    \/ \E it \in h.dflight : DispatchUpdateFail(it)

Spec == Init /\ [][Next]_vars

\* the paging example needs the load alone
NextPaging == StartLoad \/ LoadOk

SpecPaging == InitPaging /\ [][NextPaging]_vars

SpecWindow == InitWindow /\ [][NextPaging]_vars

\* the place of a candidate in the order of the loader
PlaceOf(id) == CHOOSE i \in 1..Len(h.candidates) : h.candidates[i].id = id

\* of the operations in flight, the one of the first and the one of the last
\* candidate
FirstOrLast(ids) ==
    {id \in ids : \/ \A o \in ids : PlaceOf(id) <= PlaceOf(o)
                  \/ \A o \in ids : PlaceOf(id) >= PlaceOf(o)}

FirstOrLastItem == {it \in h.dflight : it.id \in FirstOrLast({o.id : o \in h.dflight})}

\* the pools with more work than workers; of the calls in flight, the one of
\* the first or of the last candidate returns next
NextPool ==
    \/ StartLoad
    \/ LoadOk
    \/ BulkOk
    \/ \E id \in FirstOrLast(h.inflight) : LookupOk(id)
    \/ \E it \in FirstOrLastItem : DispatchReadOk(it)
    \/ \E it \in FirstOrLastItem : DispatchSetGetOk(it)
    \/ \E it \in FirstOrLastItem : DispatchUpdateOk(it)

SpecPool == InitPool /\ [][NextPool]_vars

\* another request with a prize and the same target business is served while
\* ours is: one of its workers takes subject id from its queue and calls
\* getMembership (runWorker 657-659)
PeerStart(id) ==
    /\ h.pc \in {"load", "bulk", "dispatch"}
    /\ peer.step = "off"
    /\ peer' = Fresh(id)
    /\ UNCHANGED <<cfg, now, users, ms, req, runs, faults, h, pre, prev, businessesCache, me, ev>>

\* runWorker 659-661 of the other request
PeerReadOk ==
    /\ peer.step = "get"
    /\ LET i == getMembership(ms, peer.id, req.businessId)
           nextValid == (IF i = 0 THEN 0 ELSE ms[i].validCoupons) + 1
       IN  peer' = Item(peer.id, "setGet", nextValid, 0, NoData)
    /\ UNCHANGED <<cfg, now, users, ms, req, runs, faults, h, pre, prev, businessesCache, me, ev>>

\* setMembershipCounters 189-196 of the other request; MEMBERSHIP_NOT_FOUND
\* ends in the catch of its runWorker
PeerSetGetOk ==
    /\ peer.step = "setGet"
    /\ LET i == getMembership(ms, peer.id, req.businessId)
       IN  peer' = IF i = 0 THEN Item(peer.id, "failed", peer.nextValid, 0, NoData)
                   ELSE Item(peer.id, "update", peer.nextValid, ms[i].id,
                             CountersUpdate(ms[i], DispatchCounters(peer.nextValid)))
    /\ UNCHANGED <<cfg, now, users, ms, req, runs, faults, h, pre, prev, businessesCache, me, ev>>

\* setMembershipCounters 197-205 of the other request
PeerUpdateOk ==
    /\ peer.step = "update"
    /\ peer' = [peer EXCEPT !.step = "done"]
    /\ ms' = UpdateMembership(ms, peer.rowId, peer.data)
    /\ UNCHANGED <<cfg, now, users, req, runs, faults, h, pre, prev, businessesCache, me, ev>>

NextRace ==
    \/ StartLoad
    \/ LoadOk
    \/ BulkOk
    \/ \E it \in h.dflight : DispatchReadOk(it)
    \/ \E it \in h.dflight : DispatchSetGetOk(it)
    \/ \E it \in h.dflight : DispatchUpdateOk(it)
    \/ \E id \in SeqToSet(UserIds(users)) : PeerStart(id)
    \/ PeerReadOk
    \/ PeerSetGetOk
    \/ PeerUpdateOk

SpecRace == InitRace /\ [][NextRace]_vars

(***************************************************************************)
(* GET /api/v1/me: the enrolment of the subject (get.me.service.ts 46-113) *)
(***************************************************************************)
\* hasMembership (51-55) on the list the call read
hasMembership(list, d) ==
    IF d.businessId # Nil THEN \E i \in 1..Len(list) : list[i].businessId = d.businessId
    ELSE IF d.brandId # Nil THEN \E i \in 1..Len(list) : list[i].brandId = d.brandId
    ELSE FALSE

\* upsertMembership's read: findUnique on (userId, businessId) with a
\* business, findFirst on (userId, brandId) with a brand alone; the row's id,
\* 0 for null
FindExisting(table, userId, d) ==
    LET hit == IF d.businessId # Nil
               THEN {i \in 1..Len(table) : table[i].userId = userId
                                           /\ table[i].businessId = d.businessId}
               ELSE {i \in 1..Len(table) : table[i].userId = userId
                                           /\ table[i].brandId = d.brandId}
    IN  IF hit = {} THEN 0 ELSE table[CHOOSE i \in hit : \A j \in hit : i <= j].id

\* addMembership: prisma.userMembership.create
addMembership(table, userId, d) ==
    Append(table, [Mship(userId, d.businessId, d.brandId, Some(0), Some(0), Some(0), 0, 0, None)
                      EXCEPT !.id = Len(table) + 1])

MeStep(c, call) ==
    /\ me' = [me EXCEPT !.calls[c] = call]
    /\ UNCHANGED <<cfg, now, users, ms, req, runs, faults, h, pre, prev, peer, businessesCache, ev>>

MeWrite(c, call, table) ==
    /\ me' = [me EXCEPT !.calls[c] = call]
    /\ ms' = table
    /\ UNCHANGED <<cfg, now, users, req, runs, faults, h, pre, prev, peer, businessesCache, ev>>

\* 21-46: the call arrives with a verified subject, the user is found, the
\* host is resolved, and listMemberships is called
MeStart(c) ==
    /\ me.sub # Nil
    /\ me.calls[c].pc = "off"
    /\ MeStep(c, [me.calls[c] EXCEPT !.pc = "list"])

\* 46-57 and 100-108: listMemberships returns.  Without a membership of the
\* domain the call enrols the subject (round 1 of upsertMembership); with
\* one, it calls upsertMembership only if the token has a claim for the
\* domain (round 2), and otherwise goes on to its reply
MeListed(c) ==
    /\ me.calls[c].pc = "list"
    /\ \E claimed \in BOOLEAN :
          MeStep(c, IF ~hasMembership(listMemberships(ms, me.sub), me.domain)
                    THEN [me.calls[c] EXCEPT !.pc = "find", !.round = 1]
                    ELSE IF claimed THEN [me.calls[c] EXCEPT !.pc = "find", !.round = 2]
                    ELSE [me.calls[c] EXCEPT !.pc = "done", !.status = 200])

\* upsertMembership 116-118 and 132-134: the read returns, and the update or
\* the create is called
MeFound(c) ==
    /\ me.calls[c].pc = "find"
    /\ LET id == FindExisting(ms, me.sub, me.domain)
       IN  MeStep(c, IF id # 0 THEN [me.calls[c] EXCEPT !.pc = "update", !.rowId = id]
                     ELSE [me.calls[c] EXCEPT !.pc = "create"])

\* upsertMembership 119-125 and 135-140: the update is written (the brand of
\* the row with a business, the role alone otherwise), and listMemberships
\* is called again
MeUpdated(c) ==
    /\ me.calls[c].pc = "update"
    /\ MeWrite(c, [me.calls[c] EXCEPT !.pc = "relist"],
               [i \in 1..Len(ms) |->
                   IF ms[i].id = me.calls[c].rowId /\ me.domain.businessId # Nil
                   THEN [ms[i] EXCEPT !.brandId = me.domain.brandId] ELSE ms[i]])

\* addMembership 97-104: the row is created; with a business, the unique key
\* (userId, businessId) rejects a second row, the call throws and the catch
\* at 283 answers 500
MeCreated(c) ==
    /\ me.calls[c].pc = "create"
    /\ IF me.domain.businessId # Nil /\ getMembership(ms, me.sub, me.domain.businessId) # 0
       THEN MeStep(c, [me.calls[c] EXCEPT !.pc = "done", !.status = 500])
       ELSE MeWrite(c, [me.calls[c] EXCEPT !.pc = "relist"],
                    addMembership(ms, me.sub, me.domain))

\* 58-113 and after: listMemberships returns; after the enrolment the claim
\* of the domain is added to the token's claims, so the call finds it and
\* calls upsertMembership once more (round 2); after round 2 the reply
\* is built
MeRelisted(c) ==
    /\ me.calls[c].pc = "relist"
    /\ MeStep(c, IF me.calls[c].round = 1 THEN [me.calls[c] EXCEPT !.pc = "find", !.round = 2]
                 ELSE [me.calls[c] EXCEPT !.pc = "done", !.status = 200])

NextMe ==
    \/ \E c \in 1..MeCalls : MeStart(c)
    \/ \E c \in 1..MeCalls : MeListed(c)
    \/ \E c \in 1..MeCalls : MeFound(c)
    \/ \E c \in 1..MeCalls : MeUpdated(c)
    \/ \E c \in 1..MeCalls : MeCreated(c)
    \/ \E c \in 1..MeCalls : MeRelisted(c)

SpecMe == InitMe /\ [][NextMe]_vars

ISO1 == <<"2", "0", "2", "6", "-", "1", "1", "-", "0", "2">>

ISO2 == <<"1", "9", "9", "0", "-", "0", "1", "-", "0", "5">>

(***************************************************************************)
(* The clock moves: birthdays of today, tomorrow and a week ago, rules     *)
(* with placeholders, and midnights that pass before, during and between   *)
(* two runs of the request                                                 *)
(***************************************************************************)
BirthdayUsers ==
    [AllUsers EXCEPT ![1].birthday = Str(<<"1", "9", "9", "0", "-", "1", "1", "-", "0", "2">>),
                     ![2].birthday = Str(<<"1", "9", "8", "5", "-", "1", "1", "-", "0", "3">>),
                     ![3].birthday = Str(<<"2", "0", "0", "0", "-", "1", "0", "-", "2", "6">>)]

PlaceholderRules ==
    {<<Rule("USER", "birthday", "CONTAINS", Str(<<"$", "{">> \o TokTodaySuffix \o <<"}">>))>>,
     <<Rule("USER", "birthday", "CONTAINS", Str(TokTodayMmDd)),
       Rule("USER", "email", "CONTAINS", Str(<<"@">>))>>,
     <<Rule("USER", "birthday", "NOT_CONTAINS",
            Str(<<"{", "{", "7">> \o TokDaysBefore \o TokSuffixMmDd \o <<"}", "}">>))>>,
     <<Rule("USER", "birthday", "CONTAINS", Str(<<"-", "1", "1", "-", "0", "2">>))>>}

InitClock ==
    \E rl \in PlaceholderRules, b \in {Nil, "b1"}, repo \in {PrismaRepo, BulkRepo} :
        /\ cfg = [BaseCfg EXCEPT !.repo = repo]
        /\ now = Today
        /\ users = BirthdayUsers
        /\ ms = TableOf([i \in 1..NumUsers |-> 1])
        /\ req = [BaseReq EXCEPT !.rules = rl, !.businessId = b]
        /\ runs = MaxRuns
        /\ faults = 0
        /\ h = Idle
        /\ pre = <<>>
        /\ prev = NoPrev
        /\ peer = NoPeer
        /\ businessesCache = cfg.cache
        /\ me = NoMe
        /\ ev = NoEv

\* midnight passes, whatever the handler is waiting for
Tick ==
    /\ now < Today + MaxTicks
    /\ now' = now + 1
    /\ UNCHANGED <<cfg, users, ms, req, runs, faults, h, pre, prev, peer, businessesCache, me, ev>>

NextClock ==
    \/ StartLoad
    \/ LoadOk
    \/ BulkOk
    \/ \E id \in {users[i].id : i \in 1..Len(users)} : LookupOk(id)
    \/ Tick

SpecClock == InitClock /\ [][NextClock]_vars

(***************************************************************************)
(* The dispatcher to its end: a prize for business b1 on pages of no user, *)
(* of fewer users than workers and of more, with store calls that return   *)
(* or fail; every call in flight is answered in the end                    *)
(***************************************************************************)
InitLive ==
    \E pg \in {<<NotFinite, NotFinite>>, <<Raw(30), NotFinite>>, <<Raw(120), NotFinite>>,
               <<Raw(30), Raw(5000)>>},
       f \in {0, MaxFaults} :
        /\ f = 0 \/ pg = <<Raw(30), NotFinite>>
        /\ cfg = [BaseCfg EXCEPT !.repo = BulkRepo]
        /\ now = Today
        /\ users = [i \in 1..PoolUsers |-> UserOf(i)]
        /\ ms = [i \in 1..PoolUsers |->
                    [Mship(UserIdOf[i], "b1", "br1", Some(2), None, None, 1, 1, Some(Today - 3))
                        EXCEPT !.id = i]]
        /\ req = [BaseReq EXCEPT !.businessId = "b1", !.limit = pg[1], !.offset = pg[2],
                                 !.prize = [has |-> TRUE, id |-> "p1"]]
        /\ runs = 1
        /\ faults = f
        /\ h = Idle
        /\ pre = <<>>
        /\ prev = NoPrev
        /\ peer = NoPeer
        /\ businessesCache = cfg.cache
        /\ me = NoMe
        /\ ev = NoEv

\* a store call of a dispatcher worker returns or fails, and the worker goes on
WorkerStep ==
    \/ \E it \in FirstOrLastItem : DispatchReadOk(it)
    \/ \E it \in FirstOrLastItem : DispatchReadFail(it)
    \/ \E it \in FirstOrLastItem : DispatchSetGetOk(it)
    \/ \E it \in FirstOrLastItem : DispatchSetGetFail(it)
    \/ \E it \in FirstOrLastItem : DispatchUpdateOk(it)
    \/ \E it \in FirstOrLastItem : DispatchUpdateFail(it)

NextLive ==
    \/ StartLoad
    \/ LoadOk
    \/ BulkOk
    \/ WorkerStep

\* every store call of a worker returns or fails, and the event loop resumes
\* the worker that awaited it
SpecLive == InitLive /\ [][NextLive]_vars /\ WF_vars(WorkerStep)

(***************************************************************************)
(* One rule on one field value: resolveDynamicValue of the rule's value    *)
(* (query.service.ts 451-452), then matchesOperator of the field value     *)
(* with the resolved value (548); the resolved value is resolved once more *)
(* when a caller sends it back in a later rule                             *)
(***************************************************************************)
\* what pickUserField can give: undefined, null, numbers, texts, dates
FieldValues ==
    {Undef, NullV, Num(5), Num(40), Num(60),
     Str(<<>>), Str(<<"5">>), Str(<<"a", "b">>), Str(<<"a", "b", "c">>),
     Str(ISO1), Str(ISO2),
     Arr(<<Num(5), Str(<<"a", "b">>)>>)}

\* what a rule's value can be: the same, empty and nested lists, supported
\* placeholders bare, wrapped and padded, and texts that are no placeholder
RuleValues ==
    FieldValues \cup
    {Arr(<<>>), Arr(<<NullV, Str(ISO1)>>),
     Str(TokTodayMmDd), Str(<<"$", "{">> \o TokTodaySuffix \o <<"}">>),
     Str(<<"{", "{">> \o <<"7">> \o TokDaysBefore \o TokSuffixMmDd \o <<"}", "}">>),
     Str(<<" ", "$", "{">> \o <<"3", "0">> \o TokDaysBefore \o <<"}", " ">>),
     Str(<<"4", "0">> \o TokDaysBefore),
     Str(<<"$", "{", "T", "O", "M", "O", "R", "R", "O", "W", "}">>),
     Str(<<" ", "a", "b", " ">>),
     Str(<<"$", "{", "$", "{">> \o TokTodayMmDd \o <<"}", "}">>)}

SupportedOperators ==
    {"EQUALS", "NOT_EQUALS", "CONTAINS", "NOT_CONTAINS", "GREATER_THAN", "LESS_THAN",
     "IN", "NOT_IN"}

RuleOperators == SupportedOperators \cup {"LIKE", "", "equals"}

InitEval ==
    \E a \in FieldValues, op \in RuleOperators, b \in RuleValues,
       clock \in {Today, DaysFromCivil(2027, 1, 15)} :
        /\ cfg = BaseCfg
        /\ now = clock
        /\ users = AllUsers
        /\ ms = <<>>
        /\ req = BaseReq
        /\ runs = 0
        /\ faults = 0
        /\ h = Idle
        /\ pre = <<>>
        /\ prev = NoPrev
        /\ peer = NoPeer
        /\ businessesCache = cfg.cache
        /\ me = NoMe
        /\ ev = [NoEv EXCEPT !.pc = "in", !.field = "birthday", !.a = a, !.op = op, !.b = b,
                             !.clock = clock]

EvStep(e) ==
    /\ ev' = e
    /\ UNCHANGED <<cfg, now, users, ms, req, runs, faults, h, pre, prev, peer, businessesCache, me>>

\* 451-452: the rule's value is resolved
EvalResolve ==
    /\ ev.pc = "in"
    /\ EvStep([ev EXCEPT !.pc = "resolved",
                         !.out = resolveDynamicValue(ev.field, ev.op, ev.b, ev.clock)])

\* 548: the rule is matched against the field value
EvalMatch ==
    /\ ev.pc = "resolved"
    /\ EvStep([ev EXCEPT !.pc = "matched", !.match = matchesOperator(ev.a, ev.op, ev.out)])

\* the resolved value is the value of a later rule
EvalResolveAgain ==
    /\ ev.pc = "matched"
    /\ EvStep([ev EXCEPT !.pc = "again",
                         !.again = resolveDynamicValue(ev.field, ev.op, ev.out, ev.clock)])

NextEval == EvalResolve \/ EvalMatch \/ EvalResolveAgain

SpecEval == InitEval /\ [][NextEval]_vars

(***************************************************************************)
(* Properties of matchesOperator and resolveDynamicValue                   *)
(***************************************************************************)
\* the rule has been matched against the field value
Matched == ev.pc \in {"matched", "again"}

\* C24: matchesOperator is false for every operator name outside the eight
\* supported ones, false for CONTAINS and for NOT_CONTAINS when the field
\* value is not a string, and false for IN and for NOT_IN when the rule's
\* value is not an array
C24_FailsClosed ==
    Matched =>
        /\ ev.op \notin SupportedOperators => ~ev.match
        /\ (ev.op \in {"CONTAINS", "NOT_CONTAINS"} /\ ev.a.t # "str") => ~ev.match
        /\ (ev.op \in {"IN", "NOT_IN"} /\ ev.out.t # "arr") => ~ev.match

\* NOT_CONTAINS on an absent field has been evaluated, and it is false
C24_NotContainsOnAbsentField ==
    Matched /\ ev.op = "NOT_CONTAINS" /\ ev.a = Undef /\ ev.out.t = "str" /\ ~ev.match

\* GREATER_THAN or LESS_THAN has been evaluated
Ordered == Matched /\ ev.op \in {"GREATER_THAN", "LESS_THAN"}

\* x > y for GREATER_THAN, x < y for LESS_THAN
Compare(op, x, y) == IF op = "GREATER_THAN" THEN x > y ELSE x < y

BothParse(a, b) == ~DateParse(a).nan /\ ~DateParse(b).nan

\* C25: for GREATER_THAN and LESS_THAN the result is the comparison of the
\* two instants when both operands parse as dates and the numeric comparison
\* of the operands otherwise; for two plain numbers it is their numeric
\* comparison; an operand that is neither a date nor a number makes both
\* operators false
C25_DatesThenNumbers ==
    Ordered =>
        /\ BothParse(ev.a, ev.out) =>
              ev.match = Compare(ev.op, DateParse(ev.a).v, DateParse(ev.out).v)
        /\ (~BothParse(ev.a, ev.out) /\ ~ToNumber(ev.a).nan /\ ~ToNumber(ev.out).nan) =>
              ev.match = Compare(ev.op, ToNumber(ev.a).v, ToNumber(ev.out).v)
        /\ (ev.a.t = "num" /\ ev.out.t = "num") => ev.match = Compare(ev.op, ev.a.n, ev.out.n)
        /\ (\E v \in {ev.a, ev.out} : DateParse(v).nan /\ ToNumber(v).nan) => ~ev.match

\* the rule's value has been resolved
Resolved == ev.pc \in {"resolved", "matched", "again"}

\* the six symbols of resolveDynamicValue
SupportedTokens ==
    {TokTodayMmDd, TokTodaySuffix,
     <<"7">> \o TokDaysBefore \o TokSuffixMmDd, <<"3", "0">> \o TokDaysBefore \o TokSuffixMmDd,
     <<"3", "0">> \o TokDaysBefore, <<"4", "0">> \o TokDaysBefore}

\* the value is no placeholder: not a string, or its unwrapped token is none
\* of the supported symbols
PassesThrough(v) == v.t # "str" \/ Unwrap(Trim(v.s)) \notin SupportedTokens

\* C26: resolveDynamicValue returns a value that is no placeholder unchanged,
\* wrapping and whitespace included; with the clock fixed its result depends
\* on the value alone, and resolving the result again gives the same result
C26_PassThroughAndIdempotent ==
    /\ (Resolved /\ PassesThrough(ev.b)) => ev.out = ev.b
    /\ Resolved =>
          \A f \in {"birthday", "tokens", "vip"}, o \in RuleOperators :
              resolveDynamicValue(f, o, ev.b, ev.clock) = ev.out
    /\ ev.pc = "again" => ev.again = ev.out

\* a padded and wrapped 30_DAYS_BEFORE on 2027-01-15 became 2026-12-16, and
\* resolving that again left it alone
C26_ResolvedDateResolvedAgain ==
    /\ ev.pc = "again"
    /\ ev.clock = DaysFromCivil(2027, 1, 15)
    /\ ev.b = Str(<<" ", "$", "{">> \o <<"3", "0">> \o TokDaysBefore \o <<"}", " ">>)
    /\ ev.out = Str(<<"2", "0", "2", "6", "-", "1", "2", "-", "1", "6">>)
    /\ ev.again = ev.out

(***************************************************************************)
(* Properties of POST /internal/v1/users/query                             *)
(***************************************************************************)
\* the request in flight has its reply
Answered == h.pc = "done"

\* the reply is the 200 of postUsersQueryService: the query ran
Served == Answered /\ ~cfg.mock /\ h.resp.status = 200

ResponseIds == {h.resp.users[i].id : i \in 1..Len(h.resp.users)}

\* the identity names no permitted service: there is no verified token, or
\* its azp is not in the allow-list and no entry of its aud is
Unauthorized ==
    LET allow == IF cfg.serviceAudience = <<>>
                 THEN {"campaign-service", "messaging-service", "user-service"}
                 ELSE {cfg.serviceAudience[i] : i \in 1..Len(cfg.serviceAudience)}
    IN  \/ req.token.kind # "verified"
        \/ /\ req.token.azp \notin allow
           /\ \A i \in 1..Len(req.token.aud.list) : req.token.aud.list[i] \notin allow

Forbidden403 == [status |-> 403, error |-> "FORBIDDEN", users |-> <<>>]

\* C1, as the specification states it: under every configuration, an
\* unauthorized request is answered 403 FORBIDDEN and no repository read or
\* write is made for it.
C1_ForbiddenInEveryConfiguration ==
    Unauthorized =>
        /\ h.reads = 0 /\ h.writes = 0
        /\ Answered => h.resp = Forbidden403

\* C1: no repository read or write is made for an unauthorized request under
\* any configuration; with the INTERNAL_USERS_QUERY_MOCK switch off and a
\* token the auth preHandler lets through (none, or a verified one that
\* passes KEYCLOAK_AUDIENCE), its reply is 403 FORBIDDEN.
C1_ForbiddenBeforeWork ==
    Unauthorized =>
        /\ h.reads = 0 /\ h.writes = 0
        /\ h.pc \in {"idle", "done"}
        /\ Answered => ms = pre
        /\ Answered /\ ~cfg.mock /\ ~TokenRejected(cfg, req) => h.resp = Forbidden403
        /\ Answered /\ ~cfg.mock /\ TokenRejected(cfg, req) => h.resp.status = 401
        /\ Answered /\ cfg.mock => h.resp.status = 200 /\ h.resp.users = MockUsers(now)

\* a verified identity outside the allow-list was refused
C1_Refused ==
    /\ Answered /\ Unauthorized
    /\ req.token.kind = "verified" /\ req.token.azp # Nil
    /\ h.resp = Forbidden403

\* the page size of the request: its limit cut to an integer and kept
\* within 1..200, 50 without a finite limit
PageSize ==
    IF ~req.limit.fin THEN 50
    ELSE LET t == IF req.limit.x10 >= 0 THEN req.limit.x10 \div 10
                  ELSE 0 - ((0 - req.limit.x10) \div 10)
         IN  IF t < 1 THEN 1 ELSE IF t > 200 THEN 200 ELSE t

\* C2: the response of an authorized request has at most PageSize users.
C2_AtMostPageSize == Served => Len(h.resp.users) <= PageSize

\* a limit with a fraction cut a page out of a longer sorted set
C2_PageCut ==
    /\ Served
    /\ req.limit.fin /\ req.limit.x10 % 10 # 0
    /\ Len(h.resp.users) = PageSize
    /\ Len(h.stage.sorted) > PageSize

\* rule r holds of the enriched record e
Satisfies(e, r) ==
    matchesOperator(pickUserField(RuleRecord(e), r.field), r.operator,
                    resolveDynamicValue(r.field, r.operator, r.value, now))

SatisfiesUserRules(e) ==
    \A k \in 1..Len(req.rules) : req.rules[k].database = "USER" => Satisfies(e, req.rules[k])

\* C3: every user of the response satisfies every USER rule; the rule filter
\* keeps exactly the enriched records that satisfy the USER rules, so a rule
\* of another tag changes nothing and without USER rules nobody is dropped.
C3_UserRulesHold ==
    Served =>
        /\ \A i \in 1..Len(h.resp.users) :
              \E j \in 1..Len(h.stage.enriched) :
                  /\ h.stage.enriched[j].user.id = h.resp.users[i].id
                  /\ SatisfiesUserRules(h.stage.enriched[j])
        /\ h.stage.filteredByRules = SelectSeq(h.stage.enriched, SatisfiesUserRules)
        /\ (\A k \in 1..Len(req.rules) : req.rules[k].database # "USER")
              => h.stage.filteredByRules = h.stage.enriched

\* a USER rule behind a rule of another tag dropped a candidate and kept one
C3_RuleDropped ==
    /\ Served
    /\ \E k \in 1..Len(req.rules) : req.rules[k].database = "USER"
    /\ \E k \in 1..Len(req.rules) : req.rules[k].database # "USER"
    /\ Len(h.stage.filteredByRules) < Len(h.stage.enriched)
    /\ h.resp.users # <<>>

\* membership m is in the scope of the request
InScope(m) ==
    IF req.businessId # Nil THEN m.businessId = req.businessId ELSE m.brandId = req.brandId

HasScopedMembership(id) == \E k \in 1..Len(ms) : ms[k].userId = id /\ InScope(ms[k])

\* C4: with a businessId or a brandId, every user of the response has a
\* membership in that scope; a candidate without one is not in the response.
C4_NoUnscopedLeak ==
    Served /\ (req.businessId # Nil \/ req.brandId # Nil) =>
        /\ \A id \in ResponseIds : HasScopedMembership(id)
        /\ \A i \in 1..Len(h.candidates) :
              ~HasScopedMembership(h.candidates[i].id) => h.candidates[i].id \notin ResponseIds

\* the unscoped listing loaded a candidate without a membership in the
\* scope, and the response has the others
C4_FallbackCandidateDropped ==
    /\ Served /\ (req.businessId # Nil \/ req.brandId # Nil)
    /\ ~cfg.repo.findByBusiness
    /\ \E i \in 1..Len(h.candidates) : ~HasScopedMembership(h.candidates[i].id)
    /\ h.resp.users # <<>>

\* the subjects the dispatcher of the request in flight took up
Attempted == {h.attempted[i] : i \in 1..Len(h.attempted)}

\* the row of subject id for the target business when the request arrived
RowBefore(id) == getMembership(pre, id, h.target)

\* C5: after a request with a prize, a subject whose write succeeded has one
\* valid coupon more and one total coupon more than before the request.
C5_ExactlyOneMore ==
    Answered /\ h.resp.status = 200 =>
        \A id \in Attempted \ h.failed :
            /\ RowBefore(id) # 0
            /\ ms[RowBefore(id)].validCoupons = pre[RowBefore(id)].validCoupons + 1
            /\ ms[RowBefore(id)].totalCoupons = pre[RowBefore(id)].totalCoupons + 1

WarnedIds == {h.log[i].id : i \in {k \in 1..Len(h.log) : h.log[k].level = "warn"}}

\* C6: when the dispatcher ran, the reply is 200 with every subject of the
\* final page, whatever failed; no membership of a failed subject changed;
\* every other subject of the page has one total coupon more and more valid
\* coupons than before; each failure is a warning in the log and nothing else.
C6_FailureOnlyLogged ==
    Answered /\ h.attempted # <<>> =>
        /\ h.resp.status = 200
        /\ h.resp.users = h.stage.users
        /\ Attempted = ResponseIds
        /\ \A id \in h.failed :
              \A k \in 1..Len(pre) : pre[k].userId = id => ms[k] = pre[k]
        /\ \A id \in ResponseIds \ h.failed :
              /\ RowBefore(id) # 0
              /\ ms[RowBefore(id)].totalCoupons = pre[RowBefore(id)].totalCoupons + 1
              /\ ms[RowBefore(id)].validCoupons > pre[RowBefore(id)].validCoupons
        /\ \A i \in 1..Len(h.log) : h.log[i].level = "warn"
        /\ WarnedIds = h.failed

\* a store call failed for a subject that has its row, and another subject
\* of the page was written
C6_OneFailedOthersWritten ==
    /\ Answered /\ h.attempted # <<>>
    /\ \E id \in h.failed : RowBefore(id) # 0
    /\ ResponseIds \ h.failed # {}
    /\ h.resp.status = 200

\* C7: a request in which the membership lookup of one candidate failed is
\* answered 200, without that candidate.
C7_LookupFailureTolerated ==
    Answered /\ h.lookupFailed # {} =>
        /\ h.resp.status = 200
        /\ h.lookupFailed \cap ResponseIds = {}

\* the enriched record of the user with this id
RowOf(id) == CHOOSE e \in {h.stage.enriched[j] : j \in 1..Len(h.stage.enriched)} : e.user.id = id

Opt0(o) == IF o = <<>> THEN 0 ELSE o[1]

\* the sort key of a before that of b: negative, zero or positive
KeyCompare(a, b) ==
    CASE req.sortBy = "stamp" ->
            (IF a.totalStamps # <<>> THEN a.totalStamps[1] ELSE Opt0(a.validStamps))
                - (IF b.totalStamps # <<>> THEN b.totalStamps[1] ELSE Opt0(b.validStamps))
      [] req.sortBy = "coupon" -> Opt0(a.validCoupons) - Opt0(b.validCoupons)
      [] req.sortBy = "lastVisit" -> Opt0(a.lastVisitedAt) - Opt0(b.lastVisitedAt)
      [] OTHER -> LocaleCompare(FullName(a.user.name, a.user.surname),
                                FullName(b.user.name, b.user.surname))

\* C8: each adjacent pair of the response is non-decreasing in the sort key,
\* non-increasing when sortOrder is 'desc'.
C8_Ordered ==
    Served =>
        \A i \in 1..(Len(h.resp.users) - 1) :
            LET c == KeyCompare(RowOf(h.resp.users[i].id), RowOf(h.resp.users[i + 1].id))
            IN  IF req.sortOrder = "desc" THEN c >= 0 ELSE c <= 0

\* a descending response with two different keys next to each other
C8_Descending ==
    /\ Served
    /\ req.sortOrder = "desc"
    /\ \E i \in 1..(Len(h.resp.users) - 1) :
          KeyCompare(RowOf(h.resp.users[i].id), RowOf(h.resp.users[i + 1].id)) > 0

\* C9: the request, sent again on the same store and clock, gets the same
\* users in the same order, however the fallback workers were scheduled.
C9_SameAnswer ==
    /\ Answered /\ prev.valid
    /\ prev.ms = pre /\ prev.now = now
    /\ h.resp.status = 200 /\ prev.resp.status = 200
    => h.resp.users = prev.resp.users

\* a second run on a brand in which a user has two memberships, the
\* fallback workers having returned out of the order of the candidates
C9_SecondRunOutOfOrder ==
    /\ Answered /\ prev.valid /\ prev.ms = pre
    /\ h.resp.status = 200 /\ prev.resp.status = 200
    /\ req.businessId = Nil /\ req.brandId = "br1"
    /\ Len(h.resp.users) >= 2
    /\ Len(h.collected) >= 3
    /\ h.collected[1].userId # h.candidates[1].id
    /\ \E i, j \in 1..Len(h.collected) : i # j /\ h.collected[i].userId = h.collected[j].userId

\* the offset of the request: its offset cut to an integer and floored at
\* 0, or (page - 1) * PageSize with the page cut and floored at 1, default 1
Offset ==
    LET cut(r) == IF r.x10 >= 0 THEN r.x10 \div 10 ELSE 0 - ((0 - r.x10) \div 10)
        page == IF ~req.page.fin \/ cut(req.page) < 1 THEN 1 ELSE cut(req.page)
    IN  IF req.offset.fin THEN (IF cut(req.offset) < 0 THEN 0 ELSE cut(req.offset))
        ELSE (page - 1) * PageSize

SortedIds == [i \in 1..Len(h.stage.sorted) |-> h.stage.sorted[i].user.id]

PageIds == [i \in 1..Len(h.resp.users) |-> h.resp.users[i].id]

\* C10: the page is the slice [Offset, Offset + PageSize) of the sorted
\* filtered set; of 25 elements with a page size of 10, page 3 is the
\* elements at 20..24 and page 4 is empty.
C10_ContiguousSlice ==
    Served =>
        /\ Len(PageIds) = IF Len(SortedIds) <= Offset THEN 0
                          ELSE IF Len(SortedIds) < Offset + PageSize THEN Len(SortedIds) - Offset
                          ELSE PageSize
        /\ \A i \in 1..Len(PageIds) : PageIds[i] = SortedIds[Offset + i]
        /\ Len(SortedIds) = 25 /\ PageSize = 10 /\ ~req.offset.fin /\ req.page = Raw(30)
              => PageIds = <<SortedIds[21], SortedIds[22], SortedIds[23], SortedIds[24],
                             SortedIds[25]>>
        /\ Len(SortedIds) = 25 /\ PageSize = 10 /\ ~req.offset.fin /\ req.page = Raw(40)
              => PageIds = <<>>

\* page 3 of 25 elements in pages of 10
C10_ThirdPage ==
    /\ Served
    /\ Len(SortedIds) = 25 /\ PageSize = 10 /\ ~req.offset.fin /\ req.page = Raw(30)
    /\ Len(PageIds) = 5
    /\ PageIds[1] = SortedIds[21]
    /\ SortedIds # [i \in 1..25 |-> users[i].id]

\* the users of the store that pass the scope, the rules, the search and
\* the filters of the request, whatever the candidate window
StoreMatches ==
    filtered(filteredBySearch(
                 filteredByRules(Enrich(users, SelectSeq(ms, InScope), requiresScope(req)),
                                 processedRules(req, now)),
                 ParseSearch(req)),
             req, now)

\* C11: when the store holds at least Offset + PageSize users that pass the
\* scope, the rules, the search and the filters, the page holds PageSize
\* users.
C11_FullPageWhenEnoughMatch ==
    Served /\ Len(StoreMatches) >= Offset + PageSize => Len(h.resp.users) = PageSize

(***************************************************************************)
(* C12  the dispatcher works on the page, each subject once                *)
(***************************************************************************)
Dispatched == h.pc = "dispatch" \/ (Served /\ HasPrize(req) /\ h.target # Nil)

PageIdSeq == [i \in 1..Len(h.stage.users) |-> h.stage.users[i].id]

InFlightIds == {it.id : it \in h.dflight}

\* C12: once a prize request has a target business, the subjects taken from
\* the queue followed by those still queued are the users of the returned
\* page, in page order and without repetition, however the workers
\* interleave; the subjects in flight are distinct and among those taken,
\* and when the response is sent every user of the page, and nobody else,
\* has been attempted
C12_PageAttemptedOnce ==
    Dispatched =>
        /\ h.attempted \o h.dqueue = PageIdSeq
        /\ \A i, j \in 1..Len(h.attempted) : h.attempted[i] = h.attempted[j] => i = j
        /\ InFlightIds \subseteq Attempted
        /\ Cardinality(InFlightIds) = Cardinality(h.dflight)
        /\ Served => (h.dqueue = <<>> /\ h.dflight = {} /\ Attempted = ResponseIds
                       /\ Len(h.attempted) = Len(h.resp.users))

\* a page of 13 cut from a window of 14: the twelve workers went back to the
\* queue, and the fourteenth candidate was never attempted
C12_QueueDrained ==
    /\ Served
    /\ HasPrize(req)
    /\ Len(h.resp.users) = 13
    /\ Len(h.candidates) = 14
    /\ Len(h.attempted) = 13
    /\ h.writes = 13

(***************************************************************************)
(* C13  the two pools are bounded                                          *)
(***************************************************************************)
\* C13: in every state of a request at most 8 listMemberships calls of the
\* enrichment fallback and at most 12 dispatcher operations (getMembership
\* or setMembershipCounters) are in flight, and a subject waits in a queue
\* only while its pool is full
C13_PoolsBounded ==
    /\ Cardinality(h.inflight) <= 8
    /\ Cardinality(h.dflight) <= 12
    /\ h.queue # <<>> => Cardinality(h.inflight) = 8
    /\ h.dqueue # <<>> => Cardinality(h.dflight) = 12

\* twelve dispatcher operations in flight while subjects of the page wait
C13_DispatcherFull ==
    /\ h.pc = "dispatch"
    /\ Cardinality(h.dflight) = 12
    /\ Len(h.dqueue) = 2
    /\ Len(h.stage.users) = 14

(***************************************************************************)
(* C14  two requests with a prize on one subject                           *)
(***************************************************************************)
\* both requests are through with the subject of the other request's worker,
\* and neither caught nor logged anything
BothDone ==
    /\ Served
    /\ peer.step = "done"
    /\ peer.id \in Attempted
    /\ h.failed = {}
    /\ h.log = <<>>

TotalCoupons(table, id) == table[getMembership(table, id, req.businessId)].totalCoupons

\* C14: when our request and another one have both incremented the coupons
\* of one subject for one business without any error, the subject's total
\* is one or two above the total it had when our request arrived; it is two
\* above whenever the other request computed its update from a row read
\* after our write, since every update writes the total it read plus one
C14_OneOrTwoIncrements ==
    BothDone =>
        /\ TotalCoupons(ms, peer.id) \in {TotalCoupons(pre, peer.id) + 1,
                                          TotalCoupons(pre, peer.id) + 2}
        /\ peer.data.totalCoupons = TotalCoupons(pre, peer.id) + 2
               => TotalCoupons(ms, peer.id) = TotalCoupons(pre, peer.id) + 2

\* the lost update: both requests completed, nothing was caught or logged,
\* and the subject's total grew by one
C14_LostUpdate ==
    /\ BothDone
    /\ h.writes = Len(h.attempted)
    /\ TotalCoupons(ms, peer.id) = TotalCoupons(pre, peer.id) + 1

(***************************************************************************)
(* C15  when the membership table is written                               *)
(***************************************************************************)
BrandOnly == req.businessId = Nil /\ req.brandId # Nil

\* the entries fetchDomainBusinesses returned to the request: after the call
\* they are the cache, or [] when there is none
HeldMapping == IF businessesCache.set THEN businessesCache.value ELSE <<>>

Wrote == h.writes > 0 \/ (h.pc # "idle" /\ ms # pre)

\* C15: a request writes to the membership table only if it names a prize
\* with an id and has a target business, which is its businessId or the
\* business the mapping returned by fetchDomainBusinesses gives for its
\* brandId; a request with a brandId alone whose returned mapping (the
\* mapper's answer, or the cached one when the cache is fresh or the lookup
\* fails) has no entry for the brand writes nothing and is answered 200 with
\* the page
C15_WritesNeedPrizeAndTarget ==
    /\ Wrote => /\ HasPrize(req)
                /\ h.target # Nil
                /\ h.target = ResolveTarget(req, HeldMapping)
    /\ Answered /\ HasPrize(req) /\ BrandOnly /\ h.stage # NoStage
          /\ ResolveTarget(req, HeldMapping) = Nil
          => /\ h.resp.status = 200
             /\ h.resp.users = h.stage.users
             /\ h.writes = 0
             /\ ms = pre

\* the mapper is down and nothing is cached: a page is returned, nothing is
\* written
C15_LookupFailedNothingCached ==
    /\ Served
    /\ HasPrize(req)
    /\ req.brandId = "br1"
    /\ req.businessId = Nil
    /\ h.mapperFailed
    /\ ~businessesCache.set
    /\ h.resp.users # <<>>
    /\ h.writes = 0
    /\ ms = pre

\* the statement without the cache: a request with a brandId alone writes
\* nothing when the mapper's lookup fails or its mapping has no entry for the
\* brand
C15_NoWriteWhenLookupFails ==
    /\ Wrote => HasPrize(req) /\ h.target # Nil
    /\ Served /\ BrandOnly /\ (h.mapperFailed \/ ResolveTarget(req, cfg.mapping) = Nil)
          => h.writes = 0 /\ ms = pre

(***************************************************************************)
(* C16  nobody matches, or the offset is beyond the end                    *)
(***************************************************************************)
\* the request passed the token check, the service check and the repository
\* check, and was answered
QueryAnswered ==
    /\ Answered
    /\ ~cfg.mock
    /\ ~TokenRejected(cfg, req)
    /\ isServiceRequest(cfg, req)
    /\ cfg.repo.present

ErrorLogged == \E i \in 1..Len(h.log) : h.log[i].level = "error"

\* C16: an authorized request none of whose store calls threw into the
\* handler's catch is answered 200; when its filtered set is empty, or its
\* offset is at or beyond the length of the sorted set, the users array of
\* the reply is empty
C16_EmptyPageIsSuccess ==
    QueryAnswered /\ ~ErrorLogged =>
        /\ h.resp.status = 200
        /\ h.resp.error = ""
        /\ (h.stage.filtered = <<>> \/ Offset >= Len(h.stage.sorted)) => h.resp.users = <<>>

\* candidates were loaded and the filters left none of them
C16_FiltersMatchNobody ==
    /\ QueryAnswered
    /\ req.filters # NoFilters
    /\ Len(h.candidates) = NumUsers
    /\ h.stage.enriched # <<>>
    /\ h.stage.filtered = <<>>
    /\ h.resp.status = 200
    /\ h.resp.users = <<>>

(***************************************************************************)
(* C17  the candidate load fails                                           *)
(***************************************************************************)
\* C17: the step in which the candidate load of a request throws ends the
\* request with 500 {error: 'INTERNAL_ERROR'} and no users; the membership
\* table is as it was when the request arrived, and the request has made no
\* setMembershipCounters call
C17_LoadFailureIs500 ==
    [][(h.pc = "load" /\ faults' < faults) =>
          /\ h'.pc = "done"
          /\ h'.resp = [status |-> 500, error |-> "INTERNAL_ERROR", users |-> <<>>]
          /\ h'.writes = 0
          /\ ms' = ms
          /\ ms' = pre']_vars

\* a request with a prize for business b1, whose members would have been
\* written, after its load failed
C17_LoadFailed ==
    /\ QueryAnswered
    /\ HasPrize(req)
    /\ req.businessId = "b1"
    /\ h.reads = 1
    /\ h.candidates = <<>>
    /\ ErrorLogged
    /\ h.resp.status = 500
    /\ h.resp.error = "INTERNAL_ERROR"
    /\ h.resp.users = <<>>
    /\ h.writes = 0
    /\ ms = pre

(***************************************************************************)
(* C18  the candidate window                                               *)
(***************************************************************************)
\* the search has a character that trim() keeps
HasSearch == req.search.isStr /\ \E i \in 1..Len(req.search.s) : req.search.s[i] # " "

Widening == IF HasSearch THEN 50 ELSE 10

EnvIsPositive == cfg.maxTakeEnv.fin /\ cfg.maxTakeEnv.x10 > 0

\* C18: the take handed to the loader is
\* min(max(offset + pageSize, k * pageSize), maximum) with k = 50 for a search
\* that is not blank and 10 otherwise, where maximum is 1000 when
\* INTERNAL_USERS_QUERY_MAX is not a positive number and otherwise the larger
\* of the page size and the integer part of INTERNAL_USERS_QUERY_MAX; the
\* loader returns at most take candidates
C18_TakeIsClampedWindow ==
    h.reads > 0 =>
        /\ h.take =
              LET wanted == IF Offset + PageSize >= Widening * PageSize THEN Offset + PageSize
                            ELSE Widening * PageSize
                  envMax == cfg.maxTakeEnv.x10 \div 10
                  maximum == IF ~EnvIsPositive THEN 1000
                             ELSE IF PageSize >= envMax THEN PageSize ELSE envMax
              IN  IF wanted <= maximum THEN wanted ELSE maximum
        /\ Len(h.candidates) <= h.take
        /\ h.take >= PageSize
        /\ h.take <= 1000 \/ EnvIsPositive

\* INTERNAL_USERS_QUERY_MAX is 5.5 and the page size is 10: ten candidates
\* are asked for and loaded
C18_PageSizeAboveEnvMax ==
    /\ Served
    /\ cfg.maxTakeEnv = Raw(55)
    /\ req.limit = Raw(100)
    /\ h.take = 10
    /\ Len(h.candidates) = 10

\* the statement with INTERNAL_USERS_QUERY_MAX itself as the maximum
C18_TakeWithinEnvMax ==
    h.reads > 0 =>
        /\ EnvIsPositive => h.take * 10 <= cfg.maxTakeEnv.x10
        /\ ~EnvIsPositive => h.take <= 1000

(***************************************************************************)
(* C20  a rule on the field stamps                                         *)
(***************************************************************************)
StampsAbove(n) == <<Rule("USER", "stamps", "GREATER_THAN", Num(n))>>

\* the candidates in scope whose valid stamp count, as enrichment computed
\* it, exceeds n
ScopedWithStampsAbove(n) ==
    {h.stage.enriched[i].user.id : i \in
        {j \in 1..Len(h.stage.enriched) :
            /\ h.stage.enriched[j].matchesRequestedScope
            /\ h.stage.enriched[j].validStamps # None
            /\ h.stage.enriched[j].validStamps[1] > n}}

\* C20: a scoped request whose only rule is stamps GREATER_THAN 1, and whose
\* page can hold every candidate, returns exactly the scoped candidates with
\* a valid stamp count above 1
C20_StampsRuleUsesValidStamps ==
    Served /\ requiresScope(req) /\ req.rules = StampsAbove(1) /\ PageSize >= Len(h.candidates)
        => ResponseIds = ScopedWithStampsAbove(1)

(***************************************************************************)
(* C19  GET /api/v1/me enrols the subject once                             *)
(***************************************************************************)
\* the subject's memberships of the domain's scope
DomainMemberships ==
    SelectSeq(ms, LAMBDA m : /\ m.userId = me.sub
                             /\ IF me.domain.businessId # Nil
                                THEN m.businessId = me.domain.businessId
                                ELSE m.brandId = me.domain.brandId)

MeSettled ==
    /\ \A c \in 1..MeCalls : me.calls[c].pc \in {"off", "done"}
    /\ \E c \in 1..MeCalls : me.calls[c].pc = "done"

\* C19: when every GET /api/v1/me call of the subject that has arrived is
\* answered, one after another or overlapping, the subject holds exactly one
\* membership of the domain's scope
C19_ExactlyOneMembership == MeSettled => Len(DomainMemberships) = 1

(***************************************************************************)
(* C21  the stamp threshold                                                *)
(***************************************************************************)
\* Math.trunc of a request number
Whole(r) == IF r.x10 >= 0 THEN r.x10 \div 10 ELSE 0 - ((0 - r.x10) \div 10)

AtLeastZero(n) == IF n < 0 THEN 0 ELSE n

\* the threshold asked for: filters.minStamps, or minStamp when
\* filters.minStamps is not a number
HasThreshold == req.filters.minStamps.fin \/ req.minStamp.fin

Threshold ==
    IF req.filters.minStamps.fin THEN AtLeastZero(Whole(req.filters.minStamps))
    ELSE AtLeastZero(Whole(req.minStamp))

\* the valid stamps of a user in the table for the requested business, 0
\* without a row, without a count, or without a scope
StampsInScope(id) ==
    IF req.businessId = Nil \/ getMembership(ms, id, req.businessId) = 0 THEN 0
    ELSE Opt0(ms[getMembership(ms, id, req.businessId)].validStamps)

ThresholdAlone ==
    /\ HasThreshold
    /\ req.rules = <<>>
    /\ ~req.search.isStr
    /\ req.filters.couponsOnly = FALSE
    /\ ~req.filters.lastVisitDays.fin
    /\ req.brandId = Nil

WindowAsked == req.filters.lastVisitDays.fin

WindowDays == IF Whole(req.filters.lastVisitDays) < 1 THEN 1 ELSE Whole(req.filters.lastVisitDays)

\* the last activity of a user in the table for the requested business:
\* <<>> without a row, without an instant, or without a scope
LastActivity(id) ==
    IF req.businessId = Nil \/ getMembership(ms, id, req.businessId) = 0 THEN <<>>
    ELSE ms[getMembership(ms, id, req.businessId)].lastVisitedAt

WindowAlone ==
    /\ req.rules = <<>>
    /\ ~req.search.isStr
    /\ req.filters.couponsOnly = FALSE
    /\ ~req.filters.minStamps.fin
    /\ ~req.minStamp.fin
    /\ req.brandId = Nil

RecentEnough(id) == LastActivity(id) # <<>> /\ LastActivity(id)[1] >= now - WindowDays

PassScope(id) == req.businessId # Nil => HasScopedMembership(id)

\* C22: when the activity window is the only filter of a request for a
\* business or for no scope, and the page can hold every candidate, the
\* response holds exactly the candidates that pass the scope filter and whose
\* last activity is recorded and not older than now minus the window; without
\* the filter it holds every candidate that passes the scope filter
C22_RecencyKeepsRecent ==
    Served /\ WindowAlone /\ Offset = 0 /\ PageSize >= Len(h.candidates) =>
        ResponseIds =
            {h.candidates[i].id : i \in
                {j \in 1..Len(h.candidates) :
                    /\ PassScope(h.candidates[j].id)
                    /\ WindowAsked => RecentEnough(h.candidates[j].id)}}

(***************************************************************************)
(* C23  the free-text search                                               *)
(***************************************************************************)
\* the term: the search without the blanks around it, <<>> when the search
\* is absent or blank
Term ==
    IF ~HasSearch THEN <<>>
    ELSE LET at == {i \in 1..Len(req.search.s) : req.search.s[i] # " "}
         IN  SubSeq(req.search.s, CHOOSE i \in at : \A j \in at : i <= j,
                    CHOOSE i \in at : \A j \in at : i >= j)

DigitsOf(text) ==
    SelectSeq(text, LAMBDA ch : ch \in {"0", "1", "2", "3", "4", "5", "6", "7", "8", "9"})

TextOf(v) == IF v.t = "str" THEN v.s ELSE <<>>

\* name and surname with a blank between them, without the blank when one of
\* them is missing
NameOf(u) ==
    IF TextOf(u.name) = <<>> THEN TextOf(u.surname)
    ELSE IF TextOf(u.surname) = <<>> THEN TextOf(u.name)
    ELSE TextOf(u.name) \o <<" ">> \o TextOf(u.surname)

NameHit(u) == Includes(ToLowerCase(NameOf(u)), ToLowerCase(Term))

EmailHit(u) == Includes(ToLowerCase(TextOf(u.email)), ToLowerCase(Term))

DigitsHit(u) ==
    /\ DigitsOf(Term) # <<>>
    /\ DigitsOf(TextOf(u.phone)) # <<>>
    /\ Includes(DigitsOf(TextOf(u.phone)), DigitsOf(Term))

SearchAlone ==
    /\ req.rules = <<>>
    /\ req.filters = NoFilters
    /\ ~req.minStamp.fin
    /\ req.brandId = Nil

Candidates(P(_)) == {h.candidates[i].id : i \in {j \in 1..Len(h.candidates) : P(h.candidates[j])}}

\* C23: when the search is the only filter and the page can hold every
\* candidate, a search that is not blank returns exactly the candidates in
\* scope whose lower-cased full name, lower-cased email or lower-cased phone
\* contains the lower-cased term, or whose phone digits contain the digits
\* of the term, both non-empty; an absent or blank search returns every
\* candidate in scope
C23_SearchKeepsAnyField ==
    Served /\ SearchAlone /\ Offset = 0 /\ PageSize >= Len(h.candidates) =>
        ResponseIds =
            Candidates(LAMBDA u :
                /\ PassScope(u.id)
                /\ Term # <<>> =>
                      \/ NameHit(u)
                      \/ EmailHit(u)
                      \/ Includes(ToLowerCase(TextOf(u.phone)), ToLowerCase(Term))
                      \/ DigitsHit(u))

\* the search '+39 333' returns the users with the phones '+39-333-12' and
\* '39333', which do not contain it, and not the third user
C23_FormattedPhonePrefix ==
    /\ Served
    /\ Term = <<"+", "3", "9", " ", "3", "3", "3">>
    /\ Len(h.candidates) = 3
    /\ ResponseIds = {UserIdOf[1], UserIdOf[3]}

\* the statement with the phone compared as it is written
C23_PhoneComparedLiterally ==
    Served /\ SearchAlone /\ Offset = 0 /\ PageSize >= Len(h.candidates) =>
        ResponseIds =
            Candidates(LAMBDA u :
                /\ PassScope(u.id)
                /\ Term # <<>> =>
                      \/ NameHit(u)
                      \/ EmailHit(u)
                      \/ Includes(TextOf(u.phone), ToLowerCase(Term))
                      \/ DigitsHit(u))

\* a request is between its arrival and its reply
InFlight == h.pc \notin {"idle", "done"}

\* C27: the placeholders of the rules are resolved once, when the request
\* arrives and before the candidates are asked for; the resolved rules stay
\* as they are until the reply, whatever the clock does, and the rule filter
\* compares every candidate with them
C27_ResolvedOnceOnArrival ==
    [][/\ (~InFlight /\ h'.pc = "load") =>
              (h'.rules = processedRules(req, now) /\ h'.candidates = <<>>)
       /\ InFlight => h'.rules = h.rules
       /\ (InFlight /\ h'.pc = "done" /\ h'.resp.status = 200) =>
              h'.stage.filteredByRules = filteredByRules(h'.stage.enriched, h.rules)]_vars

\* midnight passed while the candidates were being loaded: the rules of the
\* request in flight are not what the placeholders resolve to now
C27_ClockChangedInFlight ==
    /\ InFlight
    /\ now > Today
    /\ h.rules # processedRules(req, now)

\* the same request on the same tables, answered on two days with two
\* different pages
C27_OtherDayOtherPage ==
    /\ Served /\ prev.valid /\ prev.resp.status = 200
    /\ prev.ms = pre
    /\ prev.resp.users # h.resp.users

\* C28: with a prize and a target business, the response exists only once
\* the dispatcher's queue is empty, no worker has an item in flight and every
\* user of the page has been taken; an empty page is answered in the step
\* that shapes it; and as every store call returns or fails, a dispatcher
\* that has started is followed by the response
C28_ResponseAfterWorkers ==
    /\ []((Served /\ HasPrize(req) /\ h.target # Nil) =>
             /\ h.dqueue = <<>>
             /\ h.dflight = {}
             /\ h.attempted = [i \in 1..Len(h.resp.users) |-> h.resp.users[i].id])
    /\ [](h.pc = "dispatch" => h.resp = NoReply)
    /\ [][(h.pc = "bulk" /\ h'.pc # "bulk" /\ h'.stage.users = <<>>) => h'.pc = "done"]_vars
    /\ ((h.pc = "dispatch") ~> Served)

\* a page of more users than the dispatcher has workers, answered after the
\* last of them
C28_LongPageAnswered ==
    /\ Served /\ HasPrize(req) /\ h.target = "b1"
    /\ Len(h.resp.users) = PoolUsers
    /\ Len(h.attempted) = PoolUsers
    /\ h.writes = PoolUsers

\* the (id, subject, business, brand) of every record of a membership table
Records(table) ==
    {[id |-> table[i].id, userId |-> table[i].userId, businessId |-> table[i].businessId,
      brandId |-> table[i].brandId] : i \in 1..Len(table)}

\* the subjects the dispatcher has taken that had no record of the target
\* business when the request arrived
Recordless == {id \in Attempted : RowBefore(id) = 0}

\* C29: from its arrival on, a request leaves the set of membership records
\* as it found it, with a prize or without; a subject of the page without a
\* record of the target business ends as a failed write with a warning in
\* the log
C29_NoRecordCreatedOrDeleted ==
    /\ h.pc # "idle" => (Records(ms) = Records(pre) /\ Len(ms) = Len(pre))
    /\ (Answered /\ h.target # Nil) => (Recordless \subseteq h.failed /\ Recordless \subseteq WarnedIds)

\* a member of brand br1 through business b2 was on the page of a prize whose
\* target is b1: the write failed without a fault of the store, and was logged
C29_RecordlessSubjectWarned ==
    /\ Served /\ HasPrize(req) /\ h.target = "b1"
    /\ faults = MaxFaults
    /\ Recordless # {}
    /\ Recordless \subseteq WarnedIds
    /\ Len(ms) = Len(pre)

\* the sorted set has been computed
SortDone == Served /\ h.stage # NoStage

Reverse(q) == [i \in 1..Len(q) |-> q[Len(q) + 1 - i]]

\* two rows of the sorted set share their sort key
HasTies ==
    \E i, j \in 1..Len(h.stage.sorted) :
        i < j /\ KeyCompare(h.stage.sorted[i], h.stage.sorted[j]) = 0

\* C30: in the sorted set, ascending or descending, two rows with equal sort
\* keys stand in the order in which the loader returned them; so the
\* descending order of the filtered set is the reverse of its ascending order
\* exactly when no two rows share a key
C30_TiesKeepLoaderOrder ==
    SortDone =>
        /\ \A i, j \in 1..Len(h.stage.sorted) :
              (i < j /\ KeyCompare(h.stage.sorted[i], h.stage.sorted[j]) = 0) =>
                  PlaceOf(SortedIds[i]) < PlaceOf(SortedIds[j])
        /\ (sorted(h.stage.filtered, ParseSortBy(req), "desc")
                = Reverse(sorted(h.stage.filtered, ParseSortBy(req), "asc")))
              <=> ~HasTies

\* a descending sort by valid coupons of three rows, two of them with the
\* same count: the two stand as the loader returned them, behind the third
C30_DescendingWithTie ==
    /\ SortDone
    /\ req.sortBy = "coupon" /\ req.sortOrder = "desc"
    /\ Len(SortedIds) = 3
    /\ KeyCompare(h.stage.sorted[1], h.stage.sorted[2]) > 0
    /\ KeyCompare(h.stage.sorted[2], h.stage.sorted[3]) = 0
    /\ PlaceOf(SortedIds[2]) < PlaceOf(SortedIds[3])
    /\ PlaceOf(SortedIds[1]) > PlaceOf(SortedIds[2])

====
